---- MODULE Spec2Model ----
(***************************************************************************)
(* GitCLI: an interactive shell around the git binary.  The model keeps    *)
(* the repository state git holds, the text the user types at each prompt, *)
(* the outcome of every process the tool starts, and, per invocation of a  *)
(* handler, the log of prompts answered, commands run and notices printed. *)
(***************************************************************************)
EXTENDS Integers, Sequences, FiniteSets, TLC

\* ------------------------------------------------------------------ bounds
NumFiles == 2
MaxCommits == 2
MaxStashes == 1

\* ------------------------------------------------------------------ text
\* User input is a sequence of one-character strings, so that str.lower()
\* and str.strip() are computed character by character.
UpperAlpha == <<"A","B","C","D","E","F","G","H","I","J","K","L","M",
                "N","O","P","Q","R","S","T","U","V","W","X","Y","Z">>
LowerAlpha == <<"a","b","c","d","e","f","g","h","i","j","k","l","m",
                "n","o","p","q","r","s","t","u","v","w","x","y","z">>

LowerChar(c) ==
  IF \E i \in 1..26 : UpperAlpha[i] = c
  THEN LowerAlpha[CHOOSE i \in 1..26 : UpperAlpha[i] = c]
  ELSE c

\* str.lower()
lower(s) == [i \in 1..Len(s) |-> LowerChar(s[i])]

IsSpace(c) == c \in {" ", "\t"}

RECURSIVE lstrip(_)
lstrip(s) == IF s # <<>> /\ IsSpace(Head(s)) THEN lstrip(Tail(s)) ELSE s

RECURSIVE rstrip(_)
rstrip(s) ==
  IF s # <<>> /\ IsSpace(s[Len(s)]) THEN rstrip(SubSeq(s, 1, Len(s) - 1)) ELSE s

\* str.strip()
strip(s) == rstrip(lstrip(s))

T_yes == <<"y","e","s">>
T_y   == <<"y">>
T_n   == <<"n">>
T_1   == <<"1">>
T_2   == <<"2">>
T_3   == <<"3">>
T_4   == <<"4">>

T_all == <<"a","l","l">>

\* ------------------------------------------------------------- repository
FileNames == <<"a","b","c","d">>
\* Paths of the working tree (one-character names).
Files == { <<FileNames[i]>> : i \in 1..NumFiles }

Branch_main == <<"m">>
Branch_dev  == <<"d">>

\* The toggles of the configuration file smart_save reads; get_config()
\* without a file gives the defaults.
Configs == [auto_push : BOOLEAN, auto_stage : BOOLEAN, learn_from_history : BOOLEAN]

DefaultConfig == [auto_push |-> TRUE, auto_stage |-> TRUE, learn_from_history |-> TRUE]

VARIABLES
  repo,      \* what git holds now: remote, index, working tree, history, stashes
             \* and, next to it, the configuration file
             \* (remoteRef: the remote branch relative to HEAD; remoteUpdates:
             \* how many times this tool moved the remote branch)
  base,      \* the repository as it was when the current invocation started
  handler,   \* the handler being run ("idle" when none was started yet)
  script,    \* what the invocation has read so far: typed answers, process outcomes
  wait,      \* "" when the invocation returned, else the kind of input it blocks on
  prompts,   \* prompts answered in this invocation: <<[p, a]>>, a as typed
  cmds,      \* processes completed in this invocation: <<[c, arg, ok, err]>>
  notices    \* messages printed in this invocation

\* Whether git can complete command c with exit status 0 in repository r.
Feasible(c, arg, r) ==
  CASE c = "git commit"        -> /\ r.unmerged = {}
                                  /\ (r.staged # {} \/ r.mergeHead)
                                  /\ r.commits < MaxCommits
    [] c = "git push"          -> r.remote /\ r.remoteRef # "diverged"
    [] c = "git push --force"  -> r.remote
    [] c = "git stash drop"    -> r.stashes > 0
    [] c = "git stash push"    -> r.stashes < MaxStashes
    [] c = "git branch -d"     -> arg \in r.branches /\ arg # r.current
    [] c = "git branch -D"     -> arg \in r.branches /\ arg # r.current
    [] c = "git merge --abort" -> r.mergeHead
    [] c = "git revert"        -> r.commits > 0 /\ r.commits < MaxCommits
    [] c = "git reset --soft"  -> r.commits > 0
    [] c = "git pull"          -> r.remote
    [] c = "git stash pop"     -> r.stashes > 0
    [] c = "git push -u"       -> r.remote /\ r.remoteRef # "diverged"
    [] c = "git checkout"      -> arg \in r.branches
    [] c = "git checkout -b"   -> arg # <<>> /\ arg \notin r.branches
    [] OTHER                   -> TRUE

\* The repository after git completed command c with exit status 0.
Effect(c, arg, r) ==
  CASE c = "git add ."         -> [r EXCEPT !.staged = r.staged \cup r.unstaged \cup r.unmerged,
                                            !.unstaged = {}, !.unmerged = {}]
    [] c = "git add"           -> [r EXCEPT !.staged = IF arg \in r.unstaged \cup r.unmerged
                                                       THEN r.staged \cup {arg} ELSE r.staged,
                                            !.unstaged = r.unstaged \ {arg},
                                            !.unmerged = r.unmerged \ {arg}]
    [] c = "git commit"        -> [r EXCEPT !.commits = r.commits + 1,
                                            !.staged = {}, !.mergeHead = FALSE,
                                            !.remoteRef = IF r.remote /\ r.remoteRef = "synced"
                                                          THEN "behind" ELSE r.remoteRef]
    [] c = "git push"          -> [r EXCEPT !.remoteRef = "synced",
                                            !.remoteUpdates = r.remoteUpdates + 1]
    [] c = "git push --force"  -> [r EXCEPT !.remoteRef = "synced",
                                            !.remoteUpdates = r.remoteUpdates + 1]
    [] c = "git reset --hard"  -> [r EXCEPT !.staged = {}, !.unstaged = {},
                                            !.unmerged = {}, !.mergeHead = FALSE]
    [] c = "git checkout --"   -> [r EXCEPT !.unstaged = r.unstaged \ {arg}]
    [] c = "git stash drop"    -> [r EXCEPT !.stashes = r.stashes - 1]
    [] c = "git stash clear"   -> [r EXCEPT !.stashes = 0]
    [] c = "git stash push"    -> [r EXCEPT !.stashes = r.stashes + 1,
                                            !.staged = {}, !.unstaged = {}]
    [] c = "git branch -d"     -> [r EXCEPT !.branches = r.branches \ {arg}]
    [] c = "git branch -D"     -> [r EXCEPT !.branches = r.branches \ {arg}]
    [] c = "git merge --abort" -> [r EXCEPT !.staged = {}, !.unmerged = {},
                                            !.mergeHead = FALSE]
    [] c = "git revert"        -> [r EXCEPT !.commits = r.commits + 1,
                                            !.remoteRef = IF r.remote /\ r.remoteRef = "synced"
                                                          THEN "behind" ELSE r.remoteRef]
    [] c = "git reset --soft"  -> [r EXCEPT !.commits = r.commits - 1,
                                            !.staged = r.staged \cup {<<FileNames[1]>>},
                                            !.remoteRef = IF r.remote /\ r.remoteRef = "synced"
                                                          THEN "diverged" ELSE r.remoteRef]
    [] c = "git pull"          -> [r EXCEPT !.remoteRef = IF r.remoteRef = "diverged"
                                                          THEN "behind" ELSE r.remoteRef]
    [] c = "git stash pop"     -> [r EXCEPT !.stashes = r.stashes - 1,
                                            !.unstaged = r.unstaged \cup {<<FileNames[1]>>}]
    [] c = "git push -u"       -> [r EXCEPT !.remoteRef = "synced",
                                            !.remoteUpdates = r.remoteUpdates + 1]
    [] c = "git checkout"      -> [r EXCEPT !.current = arg]
    [] c = "git checkout -b"   -> [r EXCEPT !.current = arg,
                                            !.branches = r.branches \cup {arg}]
    [] OTHER                   -> r

\* ------------------------------------------------------------------ inputs
\* One thing an invocation reads: a line typed by the user (a), or the
\* outcome of a process it started (ok, and the substrings of interest that
\* occur in its captured output, err).
Typed(a)        == [a |-> a, ok |-> TRUE, err |-> {}]
Outcome(ok, e)  == [a |-> <<>>, ok |-> ok, err |-> e]

\* What a user may type at a yes/no prompt.
ConfirmAnswers == { T_yes, <<"Y","E","S">>, T_y, <<"Y">>, <<"n","o">>, <<>> }

\* What a user may type at a numbered menu.
MenuAnswers == { T_1, T_2, T_3, <<" ","2">>, <<>> }

\* What a user may type as a commit message, commit id or stash id.
FreeText == { <<>>, <<" ">>, <<"m">> }

\* What a user may type where a path is asked for.
PathAnswers == { <<>> } \cup Files

\* What a user may type where a branch name is asked for.
BranchAnswers == { <<>>, Branch_main, Branch_dev }

\* Which of the substrings the handlers look for occur in the stderr of a
\* failed `git push`.
PushErrs ==
  { {}, {"rejected"}, {"rejected", "non-fast-forward"}, {"no upstream"},
    {"rejected", "non-fast-forward", "no upstream"} }

\* Answers to a (Y/n) question.
ConsentAnswers == { T_n, <<"N">>, <<"n", "o">>, T_y, <<>> }

Branch_develop == <<"d", "e", "v">>
Branch_master == <<"m", "s">>

\* Branch names typed: none, existing ones, a part of one, a new one.
NameAnswers == { <<>>, Branch_main, Branch_dev, Branch_develop, <<"x">> }

Inputs(kind) ==
  CASE kind = "confirm" -> { Typed(a) : a \in ConfirmAnswers }
    [] kind = "menu"    -> { Typed(a) : a \in MenuAnswers }
    [] kind = "text"    -> { Typed(a) : a \in FreeText }
    [] kind = "path"    -> { Typed(a) : a \in PathAnswers }
    [] kind = "branch"  -> { Typed(a) : a \in BranchAnswers }
    [] kind = "proc"    -> { Outcome(ok, {}) : ok \in BOOLEAN }
    [] kind = "push"    -> { Outcome(TRUE, {}) } \cup { Outcome(FALSE, e) : e \in PushErrs }
    [] kind = "consent" -> { Typed(a) : a \in ConsentAnswers }
    [] kind = "name"    -> { Typed(a) : a \in NameAnswers }
    [] kind = "merge"   -> { Outcome(ok, e) : ok \in BOOLEAN, e \in {{}, {"CONFLICT"}} }
    [] OTHER            -> {}

\* --------------------------------------------------------- process runner
\* An invocation replayed from repository r over the inputs sc.  pos is the
\* next input to read; wait names the kind of input the invocation blocks on
\* once sc is used up; real is FALSE once a process was given an exit status
\* git cannot produce.
Begin(r, sc) ==
  [repo |-> r, script |-> sc, pos |-> 1, wait |-> "", real |-> TRUE,
   prompts |-> <<>>, cmds |-> <<>>, notices |-> <<>>]

Blocked(s) == s.wait # ""

\* subprocess.run(cmd, shell=True, capture_output=True, text=True)
Launch(s, c, arg, kind) ==
  IF Blocked(s) THEN s
  ELSE IF s.pos > Len(s.script) THEN [s EXCEPT !.wait = kind]
  ELSE LET o == s.script[s.pos] IN
       [s EXCEPT !.pos = @ + 1,
                 !.cmds = Append(@, [c |-> c, arg |-> arg, ok |-> o.ok, err |-> o.err]),
                 !.repo = IF o.ok THEN Effect(c, arg, @) ELSE @,
                 !.real = @ /\ (o.ok => Feasible(c, arg, s.repo))]

\* run_command(cmd): "" or stdout on exit status 0, None otherwise.
run_command(s, c, arg) == Launch(s, c, arg, "proc")

\* The last process: `result is not None` / `returncode == 0`, and stderr.
Ok(s)  == s.cmds # <<>> /\ s.cmds[Len(s.cmds)].ok
Err(s) == IF s.cmds = <<>> THEN {} ELSE s.cmds[Len(s.cmds)].err

\* input(prompt)
Ask(s, p, kind) ==
  IF Blocked(s) THEN s
  ELSE IF s.pos > Len(s.script) THEN [s EXCEPT !.wait = kind]
  ELSE [s EXCEPT !.pos = @ + 1,
                 !.prompts = Append(@, [p |-> p, a |-> s.script[s.pos].a])]

\* The line just read.
Ans(s) == IF s.prompts = <<>> THEN <<>> ELSE s.prompts[Len(s.prompts)].a

\* print(message)
Say(s, m) == IF Blocked(s) THEN s ELSE [s EXCEPT !.notices = Append(@, m)]

\* ------------------------------------------------------------ query layer
has_remote(r) == r.remote

has_staged_changes(r) == r.staged \cup r.unmerged # {}

has_unstaged_changes(r) == r.unstaged \cup r.unmerged # {}

has_any_changes(r) == has_staged_changes(r) \/ has_unstaged_changes(r)

get_current_branch(r) == r.current

\* ------------------------------------------------------- git_operations.py
\* The gate as it would be if a bare "y" also released the force push.
force_push_gate_accepts_y(s1) ==
  IF Ok(s1) THEN Say(Say(s1, "pushed"), "notify push")
  ELSE IF "rejected" \in Err(s1) /\ "non-fast-forward" \in Err(s1)
       THEN LET s2 == Ask(Say(s1, "push rejected"), "force push", "confirm") IN
            IF lower(Ans(s2)) \in {T_yes, T_y}
            THEN LET s3 == run_command(s2, "git push --force", <<>>) IN
                 IF Ok(s3) THEN Say(Say(s3, "force pushed"), "notify push") ELSE s3
            ELSE Say(s2, "force push canceled")
       ELSE Say(s1, "push failed")

\* What push_changes and quick_push do with the result of `git push`.
force_push_gate(s1) ==
  IF Ok(s1) THEN Say(Say(s1, "pushed"), "notify push")
  ELSE IF "rejected" \in Err(s1) /\ "non-fast-forward" \in Err(s1)
       THEN LET s2 == Ask(Say(s1, "push rejected"), "force push", "confirm") IN
            IF lower(Ans(s2)) = T_yes
            THEN LET s3 == run_command(s2, "git push --force", <<>>) IN
                 IF Ok(s3) THEN Say(Say(s3, "force pushed"), "notify push") ELSE s3
            ELSE Say(s2, "force push canceled")
       ELSE Say(s1, "push failed")

\* push_changes as it would be without the check for staged changes.
push_changes_ignores_staged(s0) ==
  IF ~ has_remote(s0.repo) THEN Say(s0, "no remote")
  ELSE IF has_unstaged_changes(s0.repo)
       THEN Say(s0, "uncommitted changes")
       ELSE force_push_gate(Launch(s0, "git push", <<>>, "push"))

push_changes(s0) ==
  IF ~ has_remote(s0.repo) THEN Say(s0, "no remote")
  ELSE IF has_unstaged_changes(s0.repo) \/ has_staged_changes(s0.repo)
       THEN Say(s0, "uncommitted changes")
       ELSE force_push_gate(Launch(s0, "git push", <<>>, "push"))

\* quick_push as it would be if it pushed what is already committed.
quick_push_without_commit(s0) ==
  IF ~ has_remote(s0.repo) THEN Say(s0, "no remote")
  ELSE IF ~ has_any_changes(s0.repo) THEN Say(s0, "no changes")
  ELSE LET s1 == Say(run_command(s0, "git add .", <<>>), "all staged")
           s2 == Ask(s1, "commit message", "text") IN
       IF strip(Ans(s2)) = <<>> THEN Say(s2, "empty message")
       ELSE force_push_gate(Launch(s2, "git push", <<>>, "push"))

quick_push(s0) ==
  IF ~ has_remote(s0.repo) THEN Say(s0, "no remote")
  ELSE IF ~ has_any_changes(s0.repo) THEN Say(s0, "no changes")
  ELSE LET s1 == Say(run_command(s0, "git add .", <<>>), "all staged")
           s2 == Ask(s1, "commit message", "text") IN
       IF strip(Ans(s2)) = <<>> THEN Say(s2, "empty message")
       ELSE LET s3 == Say(run_command(s2, "git commit", strip(Ans(s2))), "committed") IN
            force_push_gate(Launch(s3, "git push", <<>>, "push"))

\* The end of commit_changes as it would be if an empty message were asked for
\* once more.
commit_with_message_retries(s1) ==
  LET s2 == Ask(s1, "commit message", "text")
      s3 == IF strip(Ans(s2)) = <<>>
            THEN Ask(Say(s2, "empty message"), "commit message", "text") ELSE s2 IN
  IF strip(Ans(s3)) = <<>> THEN Say(s3, "empty message")
  ELSE Say(Say(run_command(s3, "git commit", strip(Ans(s3))), "committed"),
           "notify commit")

\* The message prompt and the commit that end both commit_changes.
commit_with_message(s1) ==
  LET s2 == Ask(s1, "commit message", "text") IN
  IF strip(Ans(s2)) = <<>> THEN Say(s2, "empty message")
  ELSE Say(Say(run_command(s2, "git commit", strip(Ans(s2))), "committed"),
           "notify commit")

commit_changes(s0) ==
  IF ~ has_staged_changes(s0.repo)
  THEN IF has_unstaged_changes(s0.repo)
       THEN commit_with_message(
              Say(run_command(Say(s0, "staging all"), "git add .", <<>>), "all staged"))
       ELSE Say(s0, "no changes")
  ELSE commit_with_message(s0)

\* ----------------------------------------------------------------- gitcli.py
gitcli_commit_changes(s0) ==
  IF ~ has_staged_changes(s0.repo)
  THEN IF has_unstaged_changes(s0.repo)
       THEN LET s1 == Ask(Say(s0, "no staged changes"), "stage all", "confirm") IN
            IF lower(Ans(s1)) = T_y
            THEN commit_with_message(Say(run_command(s1, "git add .", <<>>), "all staged"))
            ELSE Say(s1, "commit canceled")
       ELSE Say(s0, "no changes")
  ELSE commit_with_message(s0)

gitcli_force_push_gate(s1) ==
  IF Ok(s1) THEN Say(Say(s1, "pushed"), "notify push")
  ELSE IF "rejected" \in Err(s1) /\ "non-fast-forward" \in Err(s1)
       THEN LET s2 == Ask(Say(s1, "push rejected"), "force push", "confirm") IN
            IF lower(Ans(s2)) = T_yes
            THEN LET s3 == run_command(s2, "git push --force", <<>>) IN
                 IF Ok(s3) THEN Say(Say(s3, "force pushed"), "notify push") ELSE s3
            ELSE Say(s2, "force push canceled")
       ELSE s1

gitcli_push_changes(s0) ==
  IF ~ has_remote(s0.repo) THEN Say(s0, "no remote")
  ELSE IF ~ has_staged_changes(s0.repo) /\ ~ has_unstaged_changes(s0.repo)
       THEN Say(s0, "no changes")
  ELSE IF has_staged_changes(s0.repo)
       THEN gitcli_force_push_gate(Launch(s0, "git push", <<>>, "push"))
  ELSE LET s1 == Ask(Say(s0, "no staged commits"), "stage all", "confirm") IN
       IF lower(Ans(s1)) # T_y THEN Say(s1, "push canceled")
       ELSE LET s2 == Ask(run_command(s1, "git add .", <<>>), "commit message", "text") IN
            IF strip(Ans(s2)) = <<>> THEN Say(s2, "empty message")
            ELSE LET s3 == Say(run_command(s2, "git commit", strip(Ans(s2))), "committed") IN
                 gitcli_force_push_gate(Launch(s3, "git push", <<>>, "push"))

gitcli_quick_push(s0) ==
  IF ~ has_remote(s0.repo) THEN Say(s0, "no remote")
  ELSE IF ~ has_any_changes(s0.repo) THEN Say(s0, "no changes")
  ELSE LET s1 == Say(run_command(s0, "git add .", <<>>), "all staged")
           s2 == Ask(s1, "commit message", "text") IN
       IF strip(Ans(s2)) = <<>> THEN Say(s2, "empty message")
       ELSE LET s3 == Say(run_command(s2, "git commit", strip(Ans(s2))), "committed") IN
            gitcli_force_push_gate(Launch(s3, "git push", <<>>, "push"))

\* str.replace(" ", "-")
replace_space(s) == [i \in 1..Len(s) |-> IF s[i] = " " THEN "-" ELSE s[i]]

sanitize_name(name) == replace_space(strip(name))

\* sub in s
contains(s, sub) ==
  \E i \in 1..(Len(s) - Len(sub) + 1) : SubSeq(s, i, i + Len(sub) - 1) = sub

delete_branch(s0) ==
  LET s1 == Ask(s0, "branch name", "branch")
      branch == sanitize_name(Ans(s1)) IN
  IF branch = <<>> THEN Say(s1, "empty branch name")
  ELSE IF branch = get_current_branch(s1.repo) THEN Say(s1, "is current branch")
  ELSE LET s2 == Ask(s1, "delete option", "menu")
           flag == IF strip(Ans(s2)) = T_1 THEN "git branch -d" ELSE "git branch -D"
           s3 == Ask(s2, "confirm delete", "confirm") IN
       IF lower(Ans(s3)) # T_y THEN Say(s3, "delete canceled")
       ELSE Say(run_command(s3, flag, branch), "branch deleted")

\* reset_commit as it would be if its first option took the weak confirmation.
reset_commit_accepts_y(s0) ==
  LET s1 == Ask(s0, "reset option", "menu") IN
  IF strip(Ans(s1)) = T_1
  THEN LET s2 == Ask(s1, "confirm reset", "confirm") IN
       IF lower(Ans(s2)) \notin {T_yes, T_y} THEN Say(s2, "reset canceled")
       ELSE Say(run_command(s2, "git reset --hard", <<>>), "reset done")
  ELSE IF strip(Ans(s1)) = T_2
  THEN LET s2 == Ask(s1, "commit id", "text") IN
       IF strip(Ans(s2)) = <<>> THEN Say(s2, "empty commit id")
       ELSE LET s3 == Ask(s2, "confirm reset", "confirm") IN
            IF lower(Ans(s3)) # T_yes THEN Say(s3, "reset canceled")
            ELSE LET s4 == run_command(s3, "git reset --hard", strip(Ans(s2))) IN
                 IF Ok(s4) THEN Say(s4, "reset done") ELSE s4
  ELSE Say(s1, "invalid option")

reset_commit(s0) ==
  LET s1 == Ask(s0, "reset option", "menu") IN
  IF strip(Ans(s1)) = T_1
  THEN LET s2 == Ask(s1, "confirm reset", "confirm") IN
       IF lower(Ans(s2)) # T_yes THEN Say(s2, "reset canceled")
       ELSE Say(run_command(s2, "git reset --hard", <<>>), "reset done")
  ELSE IF strip(Ans(s1)) = T_2
  THEN LET s2 == Ask(s1, "commit id", "text") IN
       IF strip(Ans(s2)) = <<>> THEN Say(s2, "empty commit id")
       ELSE LET s3 == Ask(s2, "confirm reset", "confirm") IN
            IF lower(Ans(s3)) # T_yes THEN Say(s3, "reset canceled")
            ELSE LET s4 == run_command(s3, "git reset --hard", strip(Ans(s2))) IN
                 IF Ok(s4) THEN Say(s4, "reset done") ELSE s4
  ELSE Say(s1, "invalid option")

\* ------------------------------------------------------------- git_stash.py
stash_drop(s0) ==
  IF s0.repo.stashes = 0 THEN Say(s0, "no stashes")
  ELSE LET s1 == Ask(s0, "drop option", "menu") IN
    IF strip(Ans(s1)) = T_1
    THEN LET s2 == Ask(s1, "confirm drop", "confirm") IN
         IF lower(Ans(s2)) = T_y
         THEN LET s3 == run_command(s2, "git stash drop", <<>>) IN
              IF Ok(s3) THEN Say(s3, "stash dropped") ELSE s3
         ELSE s2
    ELSE IF strip(Ans(s1)) = T_2
    THEN LET s2 == Ask(s1, "stash id", "text") IN
         IF strip(Ans(s2)) = <<>> THEN Say(s2, "empty stash id")
         ELSE LET s3 == Ask(s2, "confirm drop", "confirm") IN
              IF lower(Ans(s3)) = T_y
              THEN LET s4 == run_command(s3, "git stash drop", strip(Ans(s2))) IN
                   IF Ok(s4) THEN Say(s4, "stash dropped") ELSE s4
              ELSE s3
    ELSE IF strip(Ans(s1)) = T_3
    THEN LET s2 == Ask(s1, "confirm drop all", "confirm") IN
         IF lower(Ans(s2)) = T_yes
         THEN LET s3 == run_command(s2, "git stash clear", <<>>) IN
              IF Ok(s3) THEN Say(s3, "stashes cleared") ELSE s3
         ELSE s2
    ELSE Say(s1, "invalid option")

\* ------------------------------------------------------- smart_workflows.py
\* `git branch -r --contains HEAD` prints a branch.
head_is_pushed(r) == r.remoteRef = "synced"

\* _undo_last_commit as it would be without the question about a pushed commit.
_undo_last_commit_unwarned(s0) ==
  IF s0.repo.commits = 0 THEN Say(s0, "no commits")
  ELSE LET s2 == Ask(s0, "confirm undo", "confirm") IN
       IF lower(Ans(s2)) = T_y
       THEN Say(run_command(s2, "git reset --soft", <<>>), "commit undone")
       ELSE s2

_undo_last_commit(s0) ==
  IF s0.repo.commits = 0 THEN Say(s0, "no commits")
  ELSE LET warned == has_remote(s0.repo) /\ head_is_pushed(s0.repo)
           s1 == IF warned THEN Ask(Say(s0, "commit is pushed"), "pushed option", "menu")
                 ELSE s0 IN
       IF warned /\ strip(Ans(s1)) = T_1
       THEN Say(run_command(s1, "git revert", <<>>), "revert created")
       ELSE IF warned /\ strip(Ans(s1)) # T_2 THEN Say(s1, "canceled")
       ELSE LET s2 == Ask(s1, "confirm undo", "confirm") IN
            IF lower(Ans(s2)) = T_y
            THEN Say(run_command(s2, "git reset --soft", <<>>), "commit undone")
            ELSE s2

smart_undo(s0) ==
  IF has_any_changes(s0.repo)
  THEN LET s1 == Ask(Say(s0, "uncommitted changes"), "undo option", "menu") IN
       IF strip(Ans(s1)) = T_1
       THEN LET s2 == Ask(s1, "confirm discard all", "confirm") IN
            IF lower(Ans(s2)) = T_yes
            THEN Say(run_command(run_command(s2, "git reset --hard", <<>>),
                                 "git clean -fd", <<>>), "all discarded")
            ELSE s2
       ELSE IF strip(Ans(s1)) = T_2
       THEN LET s2 == Ask(s1, "files", "path") IN
            IF strip(Ans(s2)) # <<>>
            THEN Say(run_command(s2, "git checkout --", strip(Ans(s2))), "files discarded")
            ELSE s2
       ELSE IF strip(Ans(s1)) = T_3 THEN _undo_last_commit(s1)
       ELSE Say(s1, "canceled")
  ELSE _undo_last_commit(Say(s0, "no uncommitted changes"))

\* ------------------------------------------- smart_workflows.py, gitcli.py
\* A pull or stash pop that stopped on conflicts leaves files unmerged.
Conflicted(s) ==
  IF Blocked(s) \/ Ok(s) \/ "CONFLICT" \notin Err(s) THEN s
  ELSE [s EXCEPT !.repo = [@ EXCEPT !.unmerged = {<<FileNames[1]>>}]]

\* resolve_conflicts, called from a workflow: it starts no stash, pull or
\* push; the workflow goes on when it returns.
call_resolve_conflicts(s) == Say(Say(s, "conflicts detected"), "resolve_conflicts")

_push_changes(s0) ==
  LET s1 == Launch(s0, "git push", <<>>, "push") IN
  IF Ok(s1) THEN Say(Say(s1, "pushed"), "notify push")
  ELSE IF "rejected" \in Err(s1) /\ "non-fast-forward" \in Err(s1)
  THEN Say(s1, "push rejected")
  ELSE IF "no upstream" \in Err(s1)
  THEN LET s2 == Ask(Say(s1, "no upstream"), "set upstream", "consent") IN
       IF lower(Ans(s2)) # T_n
       THEN LET s3 == run_command(s2, "git push -u", get_current_branch(s2.repo)) IN
            IF Ok(s3) THEN Say(s3, "pushed") ELSE s3
       ELSE s2
  ELSE Say(s1, "push failed")

\* The end of smart_sync: the push of the commits ahead of the upstream.
sync_push(s3) ==
  LET s4 == run_command(s3, "git rev-list", <<>>)
      ahead == Ok(s4) /\ s4.repo.remoteRef # "synced" IN
  IF ahead
  THEN LET s5 == Ask(Say(s4, "commits to push"), "push now", "consent") IN
       IF lower(Ans(s5)) # T_n
       THEN Say(Say(_push_changes(s5), "sync complete"), "notify sync")
       ELSE Say(Say(s5, "sync complete"), "notify sync")
  ELSE Say(Say(s4, "sync complete"), "notify sync")

\* smart_sync restoring the stash also after a pull stopped on conflicts.
smart_sync_pops_after_conflict(s0) ==
  IF ~ has_remote(s0.repo) THEN Say(s0, "no remote")
  ELSE
  LET dirty == has_any_changes(s0.repo)
      s1 == IF dirty THEN run_command(Say(s0, "stashing"), "git stash push", <<>>) ELSE s0
  IN
  IF dirty /\ ~ Ok(s1) THEN s1
  ELSE
  LET s2 == Launch(s1, "git pull", <<>>, "merge") IN
  IF dirty
  THEN sync_push(Launch(Say(s2, "pull complete"), "git stash pop", <<>>, "merge"))
  ELSE sync_push(Say(s2, "pull complete"))

smart_sync(s0) ==
  IF ~ has_remote(s0.repo) THEN Say(s0, "no remote")
  ELSE
  LET dirty == has_any_changes(s0.repo)
      s1 == IF dirty THEN run_command(Say(s0, "stashing"), "git stash push", <<>>) ELSE s0
  IN
  IF dirty /\ ~ Ok(s1) THEN s1
  ELSE
  LET s2 == Conflicted(Launch(s1, "git pull", <<>>, "merge")) IN
  IF ~ Ok(s2)
  THEN IF "CONFLICT" \in Err(s2)
       THEN IF dirty THEN Say(call_resolve_conflicts(s2), "stash still saved")
            ELSE call_resolve_conflicts(s2)
       ELSE Say(s2, "pull failed")
  ELSE
  IF dirty
  THEN LET s3 == Conflicted(Launch(Say(s2, "pull complete"), "git stash pop", <<>>, "merge")) IN
       IF Ok(s3) THEN sync_push(Say(s3, "changes restored"))
       ELSE IF "CONFLICT" \in Err(s3) THEN call_resolve_conflicts(s3)
       ELSE Say(s3, "stash kept")
  ELSE sync_push(Say(s2, "pull complete"))

\* The output of `git branch --list`: one line per branch, the current one
\* marked with an asterisk.
RECURSIVE branch_lines(_, _)
branch_lines(names, r) ==
  IF names = <<>> THEN <<>>
  ELSE (IF Head(names) \in r.branches
        THEN (IF Head(names) = r.current THEN <<"*", " ">> ELSE <<" ", " ">>)
               \o Head(names) \o <<"\n">>
        ELSE <<>>)
       \o branch_lines(Tail(names), r)

BranchNames == <<Branch_dev, Branch_develop, Branch_main, Branch_master, <<"x">>>>

git_branch_list(r) == branch_lines(BranchNames, r)

add_branch(s0, branch_name) ==
  LET s1 == IF branch_name = <<>> THEN Ask(s0, "new branch name", "name") ELSE s0
      branch == sanitize_name(IF branch_name = <<>> THEN Ans(s1) ELSE branch_name) IN
  IF branch = <<>> THEN Say(s1, "empty branch name")
  ELSE Say(run_command(s1, "git checkout -b", branch), "branch created")

switch_branch(s0) ==
  LET s1 == Ask(s0, "switch to", "name")
      branch == strip(Ans(s1)) IN
  IF branch = <<>> THEN Say(s1, "empty branch name")
  ELSE IF ~ contains(git_branch_list(s1.repo), branch)
  THEN LET s2 == Ask(Say(s1, "branch missing"), "create branch", "confirm") IN
       IF lower(Ans(s2)) = T_y THEN add_branch(s2, branch)
       ELSE Say(s2, "switch canceled")
  ELSE LET s2 == run_command(s1, "git checkout", branch) IN
       IF Ok(s2) THEN Say(s2, "switched") ELSE s2

\* smart_work from the test for the branch on.
work_on_branch(s1, branch_name, current_branch) ==
  LET branches == git_branch_list(s1.repo)
      branch_exists == branches # <<>> /\ contains(branches, branch_name) IN
  IF branch_exists
  THEN LET s2 == run_command(Say(s1, "switching to existing"), "git checkout", branch_name) IN
       IF ~ Ok(s2) THEN s2
       ELSE IF has_remote(s2.repo)
       THEN LET s3 == Ask(Say(s2, "switched"), "pull latest", "consent") IN
            IF lower(Ans(s3)) # T_n
            THEN LET s4 == Conflicted(Launch(s3, "git pull", <<>>, "merge")) IN
                 IF Ok(s4) THEN Say(Say(s4, "up to date"), "ready")
                 ELSE IF "CONFLICT" \in Err(s4)
                 THEN Say(call_resolve_conflicts(s4), "ready")
                 ELSE Say(s4, "ready")
            ELSE Say(s3, "ready")
       ELSE Say(Say(s2, "switched"), "ready")
  ELSE LET s2 == Ask(Say(s1, "creating branch"), "create from", "menu")
           chosen == IF strip(Ans(s2)) = <<>> THEN T_1 ELSE strip(Ans(s2))
           base_branch == IF chosen = T_2 THEN Branch_main
                          ELSE IF chosen = T_3 THEN Branch_master
                          ELSE current_branch
           s3 == IF base_branch # current_branch
                 THEN LET s2a == run_command(s2, "git checkout", base_branch) IN
                      IF has_remote(s2a.repo) THEN run_command(s2a, "git pull", <<>>) ELSE s2a
                 ELSE s2
           s4 == run_command(s3, "git checkout -b", branch_name) IN
       IF Ok(s4) THEN Say(Say(s4, "branch created"), "ready") ELSE s4

smart_work(s0) ==
  LET s1 == Ask(s0, "work on", "name") IN
  IF strip(Ans(s1)) = <<>> THEN Say(s1, "empty branch name")
  ELSE
  LET branch_name == replace_space(strip(Ans(s1)))
      current_branch == get_current_branch(s1.repo) IN
  IF has_any_changes(s1.repo)
  THEN LET s2 == Ask(Say(s1, "uncommitted changes"), "work option", "menu") IN
       IF strip(Ans(s2)) = T_1
       THEN LET s3 == run_command(s2, "git stash push", <<>>) IN
            IF Ok(s3) THEN work_on_branch(Say(s3, "stashed"), branch_name, current_branch)
            ELSE s3
       ELSE IF strip(Ans(s2)) = T_2
       THEN LET s3 == Ask(s2, "commit message", "text") IN
            IF strip(Ans(s3)) = <<>> THEN Say(s3, "empty message")
            ELSE work_on_branch(
                   Say(run_command(run_command(s3, "git add .", <<>>),
                                   "git commit", strip(Ans(s3))), "committed"),
                   branch_name, current_branch)
       ELSE Say(s2, "canceled")
  ELSE work_on_branch(s1, branch_name, current_branch)

FlowHandlers ==
  { "smart_sync", "switch_branch", "smart_work", "sync_changes", "push_changes",
    "quick_push" }

\* --------------------------------------------------------------- git_hooks.py
NumHookTypes == 2
HookTypeNames == <<"pre-commit", "pre-push", "commit-msg", "post-commit">>
HookTypes == { HookTypeNames[i] : i \in 1..NumHookTypes }

\* A template either carries a fixed script or is generated from a
\* configuration.
TemplateKeys == {"static", "generated"}

Absent == "absent"
UserScripts == {"user script 1", "user script 2"}

VARIABLES
  hooksDir,     \* .git/hooks exists
  hookFile,     \* hook type -> content of .git/hooks/<type>, or Absent
  backupFile,   \* hook type -> content of .git/hooks/<type>.backup, or Absent
  hookRecords,  \* hook type -> template recorded in .gitcli-hooks.json, or "none"
  hookTrail     \* hook type -> the install/uninstall calls that succeeded on it
                \* since (and including) its last install, the content the
                \* hook file had before that install (before), and the content
                \* it had before the first of the installs made in a row (origin)

hookVars == <<hooksDir, hookFile, backupFile, hookRecords, hookTrail>>

\* generate_hook_script / template.get("script", ""): what install writes.
generate_hook_script(template_key, hook_config) ==
  IF template_key = "static" THEN "static script"
  ELSE IF hook_config THEN "generated script"
  ELSE ""

\* install_hook as it would be if it overwrote an existing hook in place.
install_hook_without_backup(hook_type, template_key, hook_config) ==
  /\ hooksDir
  /\ hookFile' = [hookFile EXCEPT ![hook_type] =
                    generate_hook_script(template_key, hook_config)]
  /\ hookRecords' = [hookRecords EXCEPT ![hook_type] = template_key]
  /\ hookTrail' = [hookTrail EXCEPT ![hook_type] =
                     [ops |-> <<"install">>, before |-> hookFile[hook_type],
                      origin |-> IF @.ops = <<"install">> THEN @.origin
                                 ELSE hookFile[hook_type]]]
  /\ UNCHANGED <<hooksDir, backupFile>>

install_hook(hook_type, template_key, hook_config) ==
  /\ hooksDir
  /\ backupFile' = IF hookFile[hook_type] # Absent
                   THEN [backupFile EXCEPT ![hook_type] = hookFile[hook_type]]
                   ELSE backupFile
  /\ hookFile' = [hookFile EXCEPT ![hook_type] =
                    generate_hook_script(template_key, hook_config)]
  /\ hookRecords' = [hookRecords EXCEPT ![hook_type] = template_key]
  /\ hookTrail' = [hookTrail EXCEPT ![hook_type] =
                     [ops |-> <<"install">>, before |-> hookFile[hook_type],
                      origin |-> IF @.ops = <<"install">> THEN @.origin
                                 ELSE hookFile[hook_type]]]
  /\ UNCHANGED hooksDir

uninstall_hook(hook_type) ==
  /\ hookFile[hook_type] # Absent
  /\ IF backupFile[hook_type] # Absent
     THEN /\ hookFile' = [hookFile EXCEPT ![hook_type] = backupFile[hook_type]]
          /\ backupFile' = [backupFile EXCEPT ![hook_type] = Absent]
     ELSE /\ hookFile' = [hookFile EXCEPT ![hook_type] = Absent]
          /\ UNCHANGED backupFile
  /\ hookRecords' = [hookRecords EXCEPT ![hook_type] = "none"]
  /\ hookTrail' = [hookTrail EXCEPT ![hook_type] =
                     IF @.ops = <<"install">>
                     THEN [@ EXCEPT !.ops = <<"install", "uninstall">>]
                     ELSE [ops |-> <<>>, before |-> Absent, origin |-> Absent]]
  /\ UNCHANGED hooksDir

InstallHook ==
  \E h \in HookTypes, t \in TemplateKeys, c \in BOOLEAN : install_hook(h, t, c)

UninstallHook == \E h \in HookTypes : uninstall_hook(h)

HooksInit ==
  /\ hooksDir \in BOOLEAN
  /\ hookFile \in [HookTypes -> {Absent} \cup UserScripts]
  /\ backupFile \in [HookTypes -> {Absent, "user script 1"}]
  /\ ~ hooksDir => /\ hookFile = [h \in HookTypes |-> Absent]
                   /\ backupFile = [h \in HookTypes |-> Absent]
  /\ hookRecords = [h \in HookTypes |-> "none"]
  /\ hookTrail = [h \in HookTypes |-> [ops |-> <<>>, before |-> Absent, origin |-> Absent]]

HooksIdle ==
  /\ hooksDir = TRUE
  /\ hookFile = [h \in HookTypes |-> Absent]
  /\ backupFile = [h \in HookTypes |-> Absent]
  /\ hookRecords = [h \in HookTypes |-> "none"]
  /\ hookTrail = [h \in HookTypes |-> [ops |-> <<>>, before |-> Absent, origin |-> Absent]]

\* ----------------------------------------------------------- git_conflicts.py
VARIABLES
  pc,                \* where resolve_conflicts stands
  conflicted_files,  \* its in-memory list of conflicted files
  choice,            \* the menu option being carried out
  filepath,          \* the file chosen for it, or <<".">> for target "all"
  round              \* what happened since the menu option was chosen

conflictVars == <<pc, conflicted_files, choice, filepath, round>>

AllFiles == <<".">>

Digits == <<"0", "1", "2", "3", "4", "5", "6", "7", "8", "9">>

IsDigit(c) == \E i \in 1..10 : Digits[i] = c

DigitValue(c) == (CHOOSE i \in 1..10 : Digits[i] = c) - 1

\* int(text); -1 stands for ValueError (both take the same way out).
RECURSIVE int(_)
int(t) ==
  IF t = <<>> \/ \E i \in 1..Len(t) : ~ IsDigit(t[i]) THEN -1
  ELSE IF Len(t) = 1 THEN DigitValue(t[1])
  ELSE 10 * int(SubSeq(t, 1, Len(t) - 1)) + DigitValue(t[Len(t)])

has_conflicts(r) == r.unmerged # {}

get_conflicted_files(r) ==
  LET Unmerged(f) == f \in r.unmerged IN
  SelectSeq([i \in 1..NumFiles |-> <<FileNames[i]>>], Unmerged)

remove(list, f) ==
  LET Keep(x) == x # f IN SelectSeq(list, Keep)

ChoiceAnswers ==
  { T_1, T_2, T_3, T_4, <<"5">>, <<"6">>, <<"7">>, <<" ", "4">>, <<"9">> }
FileNumAnswers == { T_1, T_2, <<"3">>, T_all, <<"A", "l", "l">>, <<"x">>, <<>> }
MarkAnswers == { T_y, <<"Y">>, T_yes, <<>> }
AbortAnswers == { T_yes, <<"Y", "e", "s">>, T_y, <<>> }

\* complete_merge as it would be if it committed whether or not a merge is
\* in progress.
complete_merge_always_commits(r) ==
  [pc |-> "message",
   note |-> <<"complete_merge", IF r.mergeHead THEN "MERGE_HEAD" ELSE "no MERGE_HEAD">>]

\* complete_merge up to its prompt: the place resolve_conflicts goes to, and
\* what is noted, once nothing is left to resolve.
complete_merge(r) ==
  IF r.mergeHead
  THEN [pc |-> "message", note |-> <<"complete_merge", "MERGE_HEAD">>]
  ELSE [pc |-> "done", note |-> <<"complete_merge", "no MERGE_HEAD", "changes staged">>]

\* resolve_conflicts up to its menu.
Start ==
  /\ pc = "start"
  /\ IF ~ has_conflicts(repo)
     THEN pc' = "done" /\ round' = <<"no conflicts">> /\ UNCHANGED conflicted_files
     ELSE pc' = "menu" /\ conflicted_files' = get_conflicted_files(repo)
          /\ UNCHANGED round
  /\ UNCHANGED <<repo, choice, filepath>>

Menu ==
  /\ pc = "menu"
  /\ \E a \in ChoiceAnswers :
       LET c == strip(a) IN
       /\ choice' = c
       /\ round' = <<>>
       /\ pc' = IF c \in {T_1, T_2, T_3, T_4, <<"5">>} THEN "file number"
                ELSE IF c = <<"6">> THEN "confirm abort"
                ELSE IF c = <<"7">> THEN "done"
                ELSE "menu"
  /\ UNCHANGED <<repo, conflicted_files, filepath>>

FileNumber ==
  /\ pc = "file number"
  /\ \E a \in FileNumAnswers :
       LET file_num == strip(a)
           idx == int(file_num) - 1
           valid == 0 <= idx /\ idx < Len(conflicted_files)
       IN
       IF choice \in {T_3, T_4} /\ lower(file_num) = T_all
       THEN pc' = "confirm" /\ filepath' = AllFiles /\ UNCHANGED round
       ELSE IF ~ valid
       THEN pc' = "menu" /\ round' = Append(round, "invalid") /\ UNCHANGED filepath
       ELSE /\ filepath' = conflicted_files[idx + 1]
            /\ pc' = CASE choice = T_1 -> "menu"
                       [] choice = T_2 -> "editor"
                       [] choice \in {T_3, T_4} -> "confirm"
                       [] OTHER -> "add"
            /\ round' = IF choice = T_1 THEN Append(round, "viewed") ELSE round
  /\ UNCHANGED <<repo, conflicted_files, choice>>

Editor ==
  /\ pc = "editor"
  /\ \E ok \in BOOLEAN :
       /\ pc' = IF ok THEN "mark" ELSE "menu"
       /\ round' = Append(round, IF ok THEN "editor closed" ELSE "editor error")
  /\ UNCHANGED <<repo, conflicted_files, choice, filepath>>

Mark ==
  /\ pc = "mark"
  /\ \E a \in MarkAnswers :
       pc' = IF lower(a) = T_y THEN "add" ELSE "menu"
  /\ UNCHANGED <<repo, conflicted_files, choice, filepath, round>>

Confirm ==
  /\ pc = "confirm"
  /\ \E a \in MarkAnswers :
       IF lower(a) = T_y
       THEN pc' = "checkout" /\ round' = Append(round, "confirmed")
       ELSE pc' = "menu" /\ UNCHANGED round
  /\ UNCHANGED <<repo, conflicted_files, choice, filepath>>

\* git checkout --ours/--theirs <filepath>: rewrites the working file(s), the
\* index entries stay unmerged.
Checkout ==
  /\ pc = "checkout"
  /\ \E ok \in BOOLEAN :
       /\ pc' = IF ok THEN "add" ELSE "menu"
       /\ round' = Append(round, IF ok THEN "checkout ok" ELSE "checkout failed")
  /\ UNCHANGED <<repo, conflicted_files, choice, filepath>>

\* git add <filepath> and what follows it in each branch of the menu.
Add ==
  /\ pc = "add"
  /\ \E ok \in BOOLEAN :
       LET c == IF filepath = AllFiles THEN "git add ." ELSE "git add"
           r == IF ok THEN Effect(c, filepath, repo) ELSE repo
           result == IF ok THEN "add ok" ELSE "add failed"
           checked == choice \in {T_2, <<"5">>}
           left == remove(conflicted_files, filepath)
           cm == complete_merge(r)
       IN
       /\ repo' = r
       /\ IF filepath = AllFiles
          THEN /\ pc' = cm.pc
               /\ round' = Append(round, result) \o <<"all resolved">> \o cm.note
               /\ UNCHANGED conflicted_files
          ELSE IF checked /\ ~ ok
          THEN /\ pc' = "menu"
               /\ round' = Append(round, result)
               /\ UNCHANGED conflicted_files
          ELSE /\ conflicted_files' = left
               /\ IF left = <<>>
                  THEN /\ pc' = cm.pc
                       /\ round' = Append(round, result) \o <<"removed", "list empty">>
                                     \o cm.note
                  ELSE /\ pc' = "menu"
                       /\ round' = Append(round, result) \o <<"removed">>
  /\ UNCHANGED <<choice, filepath>>

\* complete_merge from its prompt on.
Message ==
  /\ pc = "message"
  /\ \E a \in FreeText :
       LET message == strip(a)
           c == IF message # <<>> THEN "git commit -m" ELSE "git commit --no-edit"
       IN
       \E ok \in BOOLEAN :
         /\ ok => Feasible("git commit", message, repo)
         /\ repo' = IF ok THEN Effect("git commit", message, repo) ELSE repo
         /\ round' = round \o <<c, IF ok THEN "commit ok" ELSE "commit failed">>
  /\ pc' = "done"
  /\ UNCHANGED <<conflicted_files, choice, filepath>>

\* A typed confirmation as it is entered in the log of the round.
Shown(a) ==
  CASE a = T_yes -> "typed yes"
    [] a = <<"Y", "e", "s">> -> "typed Yes"
    [] a = T_y -> "typed y"
    [] OTHER -> "typed nothing"

\* The abort question as it would be if "y" confirmed it too.
ConfirmAbort_accepts_y ==
  /\ pc = "confirm abort"
  /\ \E a \in AbortAnswers :
       /\ pc' = IF lower(a) \in {T_yes, T_y} THEN "abort" ELSE "menu"
       /\ round' = round \o <<"abort asked", Shown(a)>>
  /\ UNCHANGED <<repo, conflicted_files, choice, filepath>>

ConfirmAbort ==
  /\ pc = "confirm abort"
  /\ \E a \in AbortAnswers :
       /\ pc' = IF lower(a) = T_yes THEN "abort" ELSE "menu"
       /\ round' = round \o <<"abort asked", Shown(a)>>
  /\ UNCHANGED <<repo, conflicted_files, choice, filepath>>

Abort ==
  /\ pc = "abort"
  /\ \E ok \in BOOLEAN :
       /\ ok => Feasible("git merge --abort", <<>>, repo)
       /\ repo' = IF ok THEN Effect("git merge --abort", <<>>, repo) ELSE repo
       /\ round' = Append(round, IF ok THEN "merge aborted" ELSE "abort failed")
  /\ pc' = "done"
  /\ UNCHANGED <<conflicted_files, choice, filepath>>

\* -------------------------------------------------------- cli.py, gitcli.py
\* Words as the sequences of characters the string methods work on.
Spell ==
  "save" :> <<"s", "a", "v", "e">>
  @@ "commit" :> <<"c", "o", "m", "m", "i", "t">>
  @@ "push" :> <<"p", "u", "s", "h">>
  @@ "pull" :> <<"p", "u", "l", "l">>
  @@ "fetch" :> <<"f", "e", "t", "c", "h">>
  @@ "clone" :> <<"c", "l", "o", "n", "e">>
  @@ "stage" :> <<"s", "t", "a", "g", "e">>
  @@ "log" :> <<"l", "o", "g">>
  @@ "diff" :> <<"d", "i", "f", "f">>
  @@ "diff-staged" :> <<"d", "i", "f", "f", "-", "s", "t", "a", "g", "e", "d">>
  @@ "quick-push" :> <<"q", "u", "i", "c", "k", "-", "p", "u", "s", "h">>
  @@ "qp" :> <<"q", "p">>
  @@ "remotes" :> <<"r", "e", "m", "o", "t", "e", "s">>
  @@ "reset" :> <<"r", "e", "s", "e", "t">>
  @@ "amend" :> <<"a", "m", "e", "n", "d">>
  @@ "hooks" :> <<"h", "o", "o", "k", "s">>
  @@ "list-hooks" :> <<"l", "i", "s", "t", "-", "h", "o", "o", "k", "s">>
  @@ "stash" :> <<"s", "t", "a", "s", "h">>
  @@ "stash-pop" :> <<"s", "t", "a", "s", "h", "-", "p", "o", "p">>
  @@ "stash-apply" :> <<"s", "t", "a", "s", "h", "-", "a", "p", "p", "l", "y">>
  @@ "stash-list" :> <<"s", "t", "a", "s", "h", "-", "l", "i", "s", "t">>
  @@ "stash-drop" :> <<"s", "t", "a", "s", "h", "-", "d", "r", "o", "p">>
  @@ "stash-show" :> <<"s", "t", "a", "s", "h", "-", "s", "h", "o", "w">>
  @@ "resolve-conflicts" :> <<"r", "e", "s", "o", "l", "v", "e", "-", "c", "o", "n", "f", "l", "i", "c", "t", "s">>
  @@ "check-conflicts" :> <<"c", "h", "e", "c", "k", "-", "c", "o", "n", "f", "l", "i", "c", "t", "s">>
  @@ "switch-branch" :> <<"s", "w", "i", "t", "c", "h", "-", "b", "r", "a", "n", "c", "h">>
  @@ "add-branch" :> <<"a", "d", "d", "-", "b", "r", "a", "n", "c", "h">>
  @@ "delete-branch" :> <<"d", "e", "l", "e", "t", "e", "-", "b", "r", "a", "n", "c", "h">>
  @@ "rename-branch" :> <<"r", "e", "n", "a", "m", "e", "-", "b", "r", "a", "n", "c", "h">>
  @@ "list-branch" :> <<"l", "i", "s", "t", "-", "b", "r", "a", "n", "c", "h">>
  @@ "config" :> <<"c", "o", "n", "f", "i", "g">>
  @@ "help" :> <<"h", "e", "l", "p">>
  @@ "sync" :> <<"s", "y", "n", "c">>
  @@ "status" :> <<"s", "t", "a", "t", "u", "s">>
  @@ "listbranch" :> <<"l", "i", "s", "t", "b", "r", "a", "n", "c", "h">>
  @@ "switchbranch" :> <<"s", "w", "i", "t", "c", "h", "b", "r", "a", "n", "c", "h">>
  @@ "addbranch" :> <<"a", "d", "d", "b", "r", "a", "n", "c", "h">>
  @@ "deletebranch" :> <<"d", "e", "l", "e", "t", "e", "b", "r", "a", "n", "c", "h">>
  @@ "renamebranch" :> <<"r", "e", "n", "a", "m", "e", "b", "r", "a", "n", "c", "h">>
  @@ "quickpush" :> <<"q", "u", "i", "c", "k", "p", "u", "s", "h">>
  @@ "diffstaged" :> <<"d", "i", "f", "f", "s", "t", "a", "g", "e", "d">>
  @@ "listhooks" :> <<"l", "i", "s", "t", "h", "o", "o", "k", "s">>
  @@ "stashpop" :> <<"s", "t", "a", "s", "h", "p", "o", "p">>
  @@ "stashapply" :> <<"s", "t", "a", "s", "h", "a", "p", "p", "l", "y">>
  @@ "stashlist" :> <<"s", "t", "a", "s", "h", "l", "i", "s", "t">>
  @@ "stashdrop" :> <<"s", "t", "a", "s", "h", "d", "r", "o", "p">>
  @@ "stashshow" :> <<"s", "t", "a", "s", "h", "s", "h", "o", "w">>
  @@ "resolveconflicts" :> <<"r", "e", "s", "o", "l", "v", "e", "c", "o", "n", "f", "l", "i", "c", "t", "s">>
  @@ "checkconflicts" :> <<"c", "h", "e", "c", "k", "c", "o", "n", "f", "l", "i", "c", "t", "s">>
  @@ "quit" :> <<"q", "u", "i", "t">>
  @@ "HELP" :> <<"H", "E", "L", "P">>
  @@ "Clone" :> <<"C", "l", "o", "n", "e">>
  @@ " help " :> <<" ", "h", "e", "l", "p", " ">>
  @@ "list branch" :> <<"l", "i", "s", "t", " ", "b", "r", "a", "n", "c", "h">>
  @@ "Quick Push" :> <<"Q", "u", "i", "c", "k", " ", "P", "u", "s", "h">>
  @@ "QuickPush" :> <<"Q", "u", "i", "c", "k", "P", "u", "s", "h">>
  @@ "bogus" :> <<"b", "o", "g", "u", "s">>
  @@ "save now" :> <<"s", "a", "v", "e", " ", "n", "o", "w">>
  @@ "" :> <<>>

EXIT_OK == 0
EXIT_FAIL == 1

\* The if/elif chain of execute_command: the token compared, the handler called.
execute_command_chain ==
  <<<<Spell["save"], "smart_save">>, <<Spell["commit"], "commit_changes">>,
     <<Spell["push"], "push_changes">>, <<Spell["pull"], "pull_changes">>,
     <<Spell["fetch"], "fetch_changes">>, <<Spell["clone"], "clone_repository">>,
     <<Spell["stage"], "stage_changes">>, <<Spell["log"], "show_log">>,
     <<Spell["diff"], "show_diff">>, <<Spell["diff-staged"], "show_diff_staged">>,
     <<Spell["quick-push"], "quick_push">>, <<Spell["qp"], "quick_push">>,
     <<Spell["remotes"], "manage_remotes">>, <<Spell["reset"], "reset_commit">>,
     <<Spell["amend"], "amend_commit">>, <<Spell["hooks"], "manage_hooks">>,
     <<Spell["list-hooks"], "list_installed_hooks">>, <<Spell["stash"], "stash_changes">>,
     <<Spell["stash-pop"], "stash_pop">>, <<Spell["stash-apply"], "stash_apply">>,
     <<Spell["stash-list"], "stash_list">>, <<Spell["stash-drop"], "stash_drop">>,
     <<Spell["stash-show"], "stash_show">>,
     <<Spell["resolve-conflicts"], "resolve_conflicts">>,
     <<Spell["check-conflicts"], "check_conflicts">>,
     <<Spell["switch-branch"], "switch_branch">>, <<Spell["add-branch"], "add_branch">>,
     <<Spell["delete-branch"], "delete_branch">>,
     <<Spell["rename-branch"], "rename_branch">>, <<Spell["list-branch"], "list_branches">>,
     <<Spell["config"], "manage_config">>, <<Spell["help"], "show_help">> >>

\* The if/elif chain of gitcli.py's main.
gitcli_main_chain ==
  <<<<Spell["commit"], "commit_changes">>, <<Spell["push"], "push_changes">>,
     <<Spell["pull"], "pull_changes">>, <<Spell["sync"], "sync_changes">>,
     <<Spell["fetch"], "fetch_changes">>, <<Spell["clone"], "clone_repository">>,
     <<Spell["status"], "show_status">>, <<Spell["stage"], "stage_changes">>,
     <<Spell["log"], "show_log">>, <<Spell["diff"], "show_diff">>,
     <<Spell["diff-staged"], "show_diff_staged">>, <<Spell["quick-push"], "quick_push">>,
     <<Spell["qp"], "quick_push">>, <<Spell["remotes"], "manage_remotes">>,
     <<Spell["reset"], "reset_commit">>, <<Spell["amend"], "amend_commit">>,
     <<Spell["switch-branch"], "switch_branch">>, <<Spell["add-branch"], "add_branch">>,
     <<Spell["delete-branch"], "delete_branch">>,
     <<Spell["rename-branch"], "rename_branch">>, <<Spell["list-branch"], "list_branches">>,
     <<Spell["help"], "show_help">> >>

\* An alias table in which one alias leads to another alias.
command_map_chained ==
  << <<Spell["qp"], Spell["quickpush"]>>, <<Spell["quickpush"], Spell["quick-push"]>> >>

command_map ==
  <<<<Spell["listbranch"], Spell["list-branch"]>>,
     <<Spell["switchbranch"], Spell["switch-branch"]>>,
     <<Spell["addbranch"], Spell["add-branch"]>>,
     <<Spell["deletebranch"], Spell["delete-branch"]>>,
     <<Spell["renamebranch"], Spell["rename-branch"]>>,
     <<Spell["quickpush"], Spell["quick-push"]>>,
     <<Spell["diffstaged"], Spell["diff-staged"]>>,
     <<Spell["listhooks"], Spell["list-hooks"]>>, <<Spell["stashpop"], Spell["stash-pop"]>>,
     <<Spell["stashapply"], Spell["stash-apply"]>>,
     <<Spell["stashlist"], Spell["stash-list"]>>,
     <<Spell["stashdrop"], Spell["stash-drop"]>>,
     <<Spell["stashshow"], Spell["stash-show"]>>,
     <<Spell["resolveconflicts"], Spell["resolve-conflicts"]>>,
     <<Spell["checkconflicts"], Spell["check-conflicts"]>> >>

Lookup(table, key) ==
  IF \E i \in 1..Len(table) : table[i][1] = key
  THEN <<table[CHOOSE i \in 1..Len(table) : table[i][1] = key][2]>>
  ELSE <<>>

\* normalize_command as it would be without its alias table.
normalize_command_without_aliases(cmd) == replace_space(lower(strip(cmd)))

normalize_command(cmd) ==
  LET c == replace_space(lower(strip(cmd)))
      mapped == Lookup(command_map, c)
  IN IF mapped # <<>> THEN mapped[1] ELSE c

\* execute_command as it would be if an unknown token fell back to the help.
execute_command_defaults_to_help(command) ==
  LET h == Lookup(execute_command_chain, command) IN
  [handled |-> h # <<>>, calls |-> IF h = <<>> THEN <<"show_help">> ELSE h]

\* execute_command: the value returned and the handler calls made.
execute_command(command) ==
  LET h == Lookup(execute_command_chain, command) IN
  [handled |-> h # <<>>, calls |-> h]

\* str.split()[0] of a line that is not blank.
RECURSIVE FirstWord(_)
FirstWord(t) ==
  IF t = <<>> \/ IsSpace(Head(t)) THEN <<>> ELSE <<Head(t)>> \o FirstWord(Tail(t))

VARIABLES
  argv1,      \* sys.argv[1], or the line typed at the interactive prompt
  isGitDir,   \* os.path.isdir(".git")
  entry,      \* what ran: "" before, then "cli.py main", "gitcli.py main", "cli.py loop"
  command,    \* the token handed to the dispatch
  handled,    \* <<>> or <<the value execute_command returned>>
  calls,      \* the handlers called, in order
  touched,    \* what the called handlers did: processes started, repository or
              \* persisted configuration written
  exitCode    \* <<>> while running, <<code>> after sys.exit(code)

cliVars == <<argv1, isGitDir, entry, command, handled, calls, touched, exitCode>>

Untouched == [process |-> FALSE, repo |-> FALSE, config |-> FALSE]

\* A handler may start processes and write the repository and the
\* configuration; no call, no effect.
HandlerEffects(called) ==
  IF called = <<>> THEN {Untouched}
  ELSE [process : BOOLEAN, repo : BOOLEAN, config : BOOLEAN]

\* cli.py main with a command-line argument.
CliMain ==
  /\ entry = ""
  /\ entry' = "cli.py main"
  /\ LET c == normalize_command(argv1) IN
     /\ command' = c
     /\ IF ~ isGitDir /\ c \notin {Spell["clone"], Spell["help"]}
        THEN /\ exitCode' = <<EXIT_FAIL>>
             /\ UNCHANGED <<handled, calls, touched>>
        ELSE LET res == execute_command(c) IN
             /\ handled' = <<res.handled>>
             /\ calls' = res.calls
             /\ touched' \in HandlerEffects(res.calls)
             /\ exitCode' = IF res.handled THEN <<EXIT_OK>> ELSE <<EXIT_FAIL>>
  /\ UNCHANGED <<argv1, isGitDir>>

\* gitcli.py main with a command-line argument.
GitcliMain ==
  /\ entry = ""
  /\ entry' = "gitcli.py main"
  /\ IF ~ isGitDir /\ argv1 \notin {Spell["clone"], Spell["help"]}
     THEN /\ exitCode' = <<EXIT_FAIL>>
          /\ UNCHANGED <<command, handled, calls, touched>>
     ELSE LET c == replace_space(lower(argv1))
              h == Lookup(gitcli_main_chain, c)
          IN
          /\ command' = c
          /\ calls' = h
          /\ touched' \in HandlerEffects(h)
          /\ exitCode' = IF h # <<>> THEN <<EXIT_OK>> ELSE <<EXIT_FAIL>>
          /\ UNCHANGED handled
  /\ UNCHANGED <<argv1, isGitDir>>

\* One line of cli.py's interactive loop.
CliLoop ==
  /\ entry = ""
  /\ isGitDir
  /\ strip(argv1) # <<>>
  /\ entry' = "cli.py loop"
  /\ LET c == normalize_command(FirstWord(strip(argv1))) IN
     /\ command' = c
     /\ IF c = Spell["quit"]
        THEN UNCHANGED <<handled, calls, touched>>
        ELSE LET res == execute_command(c) IN
             /\ handled' = <<res.handled>>
             /\ calls' = res.calls
             /\ touched' \in HandlerEffects(res.calls)
  /\ UNCHANGED <<argv1, isGitDir, exitCode>>

\* COMMANDS of cli.py: what tab completion offers.
COMMANDS ==
  { Spell[w] : w \in
    { "save", "config", "commit", "push", "pull", "status", "stage", "log", "diff",
      "diff-staged", "switch-branch", "add-branch", "delete-branch", "rename-branch",
      "list-branch", "quick-push", "qp", "sync", "fetch", "clone", "remotes", "reset",
      "amend", "hooks", "list-hooks", "stash", "stash-pop", "stash-apply", "stash-list",
      "stash-drop", "stash-show", "resolve-conflicts", "check-conflicts", "help",
      "quit" } }

RawTokens ==
  { Spell[w] : w \in
    {"save", "commit", "push", "pull", "fetch", "clone", "stage", "log", "diff",
      "diff-staged", "quick-push", "qp", "remotes", "reset", "amend", "hooks", "list-hooks",
      "stash", "stash-pop", "stash-apply", "stash-list", "stash-drop", "stash-show",
      "resolve-conflicts", "check-conflicts", "switch-branch", "add-branch",
      "delete-branch", "rename-branch", "list-branch", "config", "help", "status", "sync",
      "quit", "listbranch", "switchbranch", "addbranch", "deletebranch", "renamebranch",
      "quickpush", "diffstaged", "listhooks", "stashpop", "stashapply", "stashlist",
      "stashdrop", "stashshow", "resolveconflicts", "checkconflicts", "HELP", "Clone",
      " help ", "list branch", "Quick Push", "QuickPush", "bogus", "save now", "" } }

CliInit ==
  /\ argv1 \in RawTokens
  /\ isGitDir \in BOOLEAN
  /\ entry = ""
  /\ command = <<>>
  /\ handled = <<>>
  /\ calls = <<>>
  /\ touched = Untouched
  /\ exitCode = <<>>

CliIdle ==
  /\ argv1 = <<>>
  /\ isGitDir = TRUE
  /\ entry = "idle"
  /\ command = <<>>
  /\ handled = <<>>
  /\ calls = <<>>
  /\ touched = Untouched
  /\ exitCode = <<>>

\* ------------------------------------------------- cli.py: normalize_command
MaxCapitals == 2

UpperChar(c) ==
  IF \E i \in 1..26 : LowerAlpha[i] = c
  THEN UpperAlpha[CHOOSE i \in 1..26 : LowerAlpha[i] = c]
  ELSE c

\* The sets of at most k positions among 1..n.
RECURSIVE Positions(_, _)
Positions(n, k) ==
  IF k = 0 THEN {{}}
  ELSE LET smaller == Positions(n, k - 1) IN
       smaller \cup { M \cup {i} : M \in smaller, i \in 1..n }

\* s with at most MaxCapitals letters, or all of them, in upper case.
CaseVariants(s) ==
  { [i \in 1..Len(s) |-> IF i \in M THEN UpperChar(s[i]) ELSE s[i]] :
      M \in Positions(Len(s), MaxCapitals) \cup {1..Len(s)} }

\* The hyphenated token t written with sep between its words.
RECURSIVE Respell(_, _)
Respell(t, sep) ==
  IF t = <<>> THEN <<>>
  ELSE (IF Head(t) = "-" THEN sep ELSE <<Head(t)>>) \o Respell(Tail(t), sep)

\* The canonical commands of more than one word: the values of the alias table.
MultiWord == { command_map[i][2] : i \in 1..Len(command_map) }

Separators ==
  [hyphen |-> <<"-">>, space |-> <<" ">>, joined |-> <<>>,
   spaces |-> <<" ", " ">>, tab |-> <<"\t">>]

Forms == {"hyphen", "space", "joined", "spaces", "tab"}

VARIABLES
  cmd,         \* the string handed to normalize_command (its first call)
  spelled,     \* how cmd was written: [of |-> canonical token or <<>>, form]
  normalized   \* the results of normalize_command applied to cmd, then to its result

normVars == <<cmd, spelled, normalized>>

Normalize ==
  /\ spelled.form # "idle"
  /\ Len(normalized) < 2
  /\ normalized' = Append(normalized,
       normalize_command(IF normalized = <<>> THEN cmd ELSE normalized[Len(normalized)]))
  /\ UNCHANGED <<cmd, spelled>>

NormInit ==
  /\ normalized = <<>>
  /\ \/ \E t \in MultiWord, f \in Forms :
          /\ spelled = [of |-> t, form |-> f]
          /\ cmd \in CaseVariants(Respell(t, Separators[f]))
     \/ /\ spelled = [of |-> <<>>, form |-> "raw"]
        /\ cmd \in RawTokens \cup { <<" ">> \o t \o <<" ">> : t \in RawTokens }

NormIdle ==
  /\ cmd = <<>>
  /\ spelled = [of |-> <<>>, form |-> "idle"]
  /\ normalized = <<>>

\* ---------------------------------------- helpers.py: generate_commit_message
\* The literals, commit subjects and paths as sequences of characters.
Text ==
  "feat:" :> <<"f", "e", "a", "t", ":">>
  @@ "fix:" :> <<"f", "i", "x", ":">>
  @@ "docs:" :> <<"d", "o", "c", "s", ":">>
  @@ "style:" :> <<"s", "t", "y", "l", "e", ":">>
  @@ "refactor:" :> <<"r", "e", "f", "a", "c", "t", "o", "r", ":">>
  @@ "test:" :> <<"t", "e", "s", "t", ":">>
  @@ "chore:" :> <<"c", "h", "o", "r", "e", ":">>
  @@ "wip" :> <<"w", "i", "p">>
  @@ "WIP" :> <<"W", "I", "P">>
  @@ "test" :> <<"t", "e", "s", "t">>
  @@ ".md" :> <<".", "m", "d">>
  @@ "readme" :> <<"r", "e", "a", "d", "m", "e">>
  @@ "Update files" :> <<"U", "p", "d", "a", "t", "e", " ", "f", "i", "l", "e", "s">>
  @@ "Update " :> <<"U", "p", "d", "a", "t", "e", " ">>
  @@ ": update " :> <<":", " ", "u", "p", "d", "a", "t", "e", " ">>
  @@ " files" :> <<" ", "f", "i", "l", "e", "s">>
  @@ ", " :> <<",", " ">>
  @@ "feat" :> <<"f", "e", "a", "t">>
  @@ "main" :> <<"m", "a", "i", "n">>
  @@ "docs" :> <<"d", "o", "c", "s">>
  @@ "chore" :> <<"c", "h", "o", "r", "e">>
  @@ "feat: add x" :> <<"f", "e", "a", "t", ":", " ", "a", "d", "d", " ", "x">>
  @@ "fix: y" :> <<"f", "i", "x", ":", " ", "y">>
  @@ "WIP save" :> <<"W", "I", "P", " ", "s", "a", "v", "e">>
  @@ "wip more" :> <<"w", "i", "p", " ", "m", "o", "r", "e">>
  @@ "tweak z" :> <<"t", "w", "e", "a", "k", " ", "z">>
  @@ "test: cover" :> <<"t", "e", "s", "t", ":", " ", "c", "o", "v", "e", "r">>
  @@ "test_foo.py" :> <<"t", "e", "s", "t", "_", "f", "o", "o", ".", "p", "y">>
  @@ "src/Test.py" :> <<"s", "r", "c", "/", "T", "e", "s", "t", ".", "p", "y">>
  @@ "README.md" :> <<"R", "E", "A", "D", "M", "E", ".", "m", "d">>
  @@ "main.py" :> <<"m", "a", "i", "n", ".", "p", "y">>
  @@ "lib/util.py" :> <<"l", "i", "b", "/", "u", "t", "i", "l", ".", "p", "y">>
  @@ "notes.txt" :> <<"n", "o", "t", "e", "s", ".", "t", "x", "t">>

LOG_DEPTH == 5
PATTERN_MIN == 3
NAMES_SHOWN == 3
MaxStaged == 4

startswith(s, prefix) ==
  Len(s) >= Len(prefix) /\ SubSeq(s, 1, Len(prefix)) = prefix

endswith(s, suffix) ==
  Len(s) >= Len(suffix) /\ SubSeq(s, Len(s) - Len(suffix) + 1, Len(s)) = suffix

\* os.path.basename
basename(path) ==
  LET slashes == { i \in 1..Len(path) : path[i] = "/" } IN
  IF slashes = {} THEN path
  ELSE SubSeq(path, (CHOOSE i \in slashes : \A j \in slashes : j <= i) + 1, Len(path))

\* str(n) for a file count
str(n) == IF n < 10 THEN <<Digits[n + 1]>> ELSE <<Digits[(n \div 10) + 1], Digits[(n % 10) + 1]>>

RECURSIVE join(_, _)
join(sep, names) ==
  IF names = <<>> THEN <<>>
  ELSE IF Len(names) = 1 THEN names[1]
  ELSE names[1] \o sep \o join(sep, Tail(names))

CONVENTIONAL ==
  { Text["feat:"], Text["fix:"], Text["docs:"], Text["style:"], Text["refactor:"],
    Text["test:"], Text["chore:"] }

count(list, Test(_)) == Cardinality({ i \in 1..Len(list) : Test(list[i]) })

\* get_commit_history_pattern as it would be if only upper-case WIP counted.
get_commit_history_pattern_exact_wip(commits) ==
  LET conventional(c) == \E prefix \in CONVENTIONAL : startswith(c, prefix)
      wip(c) == startswith(c, Text["WIP"])
  IN
  IF Len(commits) < 2 THEN "None"
  ELSE IF count(commits, conventional) >= PATTERN_MIN THEN "conventional"
  ELSE IF count(commits, wip) >= PATTERN_MIN THEN "wip"
  ELSE "None"

\* get_commit_history_pattern on the subjects git log -5 printed.
get_commit_history_pattern(commits) ==
  LET conventional(c) == \E prefix \in CONVENTIONAL : startswith(c, prefix)
      wip(c) == startswith(lower(c), Text["wip"])
  IN
  IF Len(commits) < 2 THEN "None"
  ELSE IF count(commits, conventional) >= PATTERN_MIN THEN "conventional"
  ELSE IF count(commits, wip) >= PATTERN_MIN THEN "wip"
  ELSE "None"

\* generate_commit_message on the staged paths and those subjects.
generate_commit_message(files, commits) ==
  IF files = <<>> THEN Text["Update files"]
  ELSE
  LET file_count == Len(files)
      shown == IF file_count < NAMES_SHOWN THEN file_count ELSE NAMES_SHOWN
      file_names == [i \in 1..shown |-> basename(files[i])]
      pattern == get_commit_history_pattern(commits)
      test(f) == contains(lower(f), Text["test"])
      docs(f) == endswith(f, Text[".md"]) \/ contains(lower(f), Text["readme"])
      prefix == IF count(files, test) > 0 THEN Text["test"]
                ELSE IF count(files, docs) > 0 THEN Text["docs"]
                ELSE IF file_count = 1 THEN Text["feat"]
                ELSE Text["chore"]
  IN
  IF pattern = "conventional"
  THEN IF file_count = 1
       THEN prefix \o Text[": update "] \o file_names[1]
       ELSE prefix \o Text[": update "] \o str(file_count) \o Text[" files"]
  ELSE IF pattern = "wip" THEN Text["WIP"]
  ELSE IF file_count = 1 THEN Text["Update "] \o file_names[1]
  ELSE IF file_count <= NAMES_SHOWN THEN Text["Update "] \o join(Text[", "], file_names)
  ELSE Text["Update "] \o str(file_count) \o Text[" files"]

SubjectPool ==
  << Text["feat: add x"], Text["fix: y"], Text["test: cover"], Text["WIP save"],
     Text["wip more"], Text["tweak z"] >>

PathPool ==
  << Text["test_foo.py"], Text["src/Test.py"], Text["README.md"], Text["main.py"],
     Text["lib/util.py"], Text["notes.txt"] >>

\* The lists of at most n entries of a pool, in the pool's order (the
\* result depends on no order but that of the first NAMES_SHOWN paths).
Picks(pool, n) ==
  { [i \in 1..Len(f) |-> pool[f[i]]] :
      f \in { g \in UNION { [1..k -> 1..Len(pool)] : k \in 0..n } :
                \A i \in 1..(Len(g) - 1) : g[i] <= g[i + 1] } }

VARIABLES
  commits,       \* the subjects printed by git log -5
  staged_files,  \* the paths printed by git diff --cached --name-only
  message        \* <<>>, then <<the generated message>>

messageVars == <<commits, staged_files, message>>

GenerateCommitMessage ==
  /\ message = <<>>
  /\ message' = <<generate_commit_message(staged_files, commits)>>
  /\ UNCHANGED <<commits, staged_files>>

MessageInit ==
  /\ commits \in Picks(SubjectPool, LOG_DEPTH)
  /\ staged_files \in { p \in Picks(PathPool, MaxStaged) :
                          \A i \in 1..(Len(p) - 1) : p[i] # p[i + 1] }
  /\ message = <<>>

MessageIdle ==
  /\ commits = <<>>
  /\ staged_files = <<>>
  /\ message = <<>>

\* ------------------------------------------------- cli.py, interactive loop
MaxLines == 3

\* Lines typed at the interactive prompt: empty and blank ones, quit in three
\* spellings, known commands with and without arguments, unknown tokens.
LoopLines ==
  { <<>>, <<" ">>, Spell["quit"], <<" ", "Q", "u", "i", "t">>,
    Spell["quit"] \o <<" ">> \o Spell["save"], Spell["status"], Spell["qp"],
    Spell["save now"], Spell["list branch"], Spell["bogus"] }

\* One pass of the loop that dispatches the quit token like any other.
interactive_line_dispatches_quit(user_input) ==
  IF strip(user_input) = <<>>
  THEN [command |-> <<>>, calls |-> <<>>, unknown |-> FALSE, exit |-> FALSE]
  ELSE LET c == normalize_command(FirstWord(strip(user_input)))
           res == execute_command(c) IN
       [command |-> c, calls |-> res.calls, unknown |-> ~ res.handled,
        exit |-> c = Spell["quit"]]

\* One pass of the `while True` loop over the line read: the command token,
\* the handlers called, whether the unknown-command message was printed and
\* whether the loop was left.
interactive_line(user_input) ==
  IF strip(user_input) = <<>>
  THEN [command |-> <<>>, calls |-> <<>>, unknown |-> FALSE, exit |-> FALSE]
  ELSE LET c == normalize_command(FirstWord(strip(user_input))) IN
       IF c = Spell["quit"]
       THEN [command |-> c, calls |-> <<>>, unknown |-> FALSE, exit |-> TRUE]
       ELSE LET res == execute_command(c) IN
            [command |-> c, calls |-> res.calls, unknown |-> ~ res.handled,
             exit |-> FALSE]

VARIABLES
  session,    \* "idle", "prompt" while the loop runs, "exited" after the break
  passes      \* one record per line read, in order

loopVars == <<session, passes>>

\* input(show_prompt()) and the body of the loop for the line read.
ReadLine ==
  /\ session = "prompt"
  /\ Len(passes) < MaxLines
  /\ \E user_input \in LoopLines :
       LET pass == interactive_line(user_input) IN
       /\ passes' = Append(passes, [line |-> user_input, command |-> pass.command,
                                    calls |-> pass.calls, unknown |-> pass.unknown])
       /\ session' = IF pass.exit THEN "exited" ELSE "prompt"

LoopInit ==
  /\ session = "prompt"
  /\ passes = <<>>

LoopIdle ==
  /\ session = "idle"
  /\ passes = <<>>

\* ------------------------------------------------- helpers.py: query layer
\* What subprocess.run gives run_command: an exit status and the stdout.
ExitStatuses == {0, 1}

RawOutputs == { <<>>, <<"\n">>, <<"a">>, <<"a", "\n">> }

\* The value run_command returns: None on a non-zero exit status, the
\* stripped stdout otherwise.
run_command_value(status, stdout) ==
  IF status = 0 THEN [none |-> FALSE, out |-> strip(stdout)]
  ELSE [none |-> TRUE, out |-> <<>>]

\* What a call gives: an exception, a truth value or a text.
Raised == [raised |-> TRUE, truth |-> FALSE, text |-> <<>>]

Truth(b) == [raised |-> FALSE, truth |-> b, text |-> <<>>]

Str(t) == [raised |-> FALSE, truth |-> FALSE, text |-> t]

\* bool(x) of None or a str
truthy(v) == ~ v.none /\ v.out # <<>>

\* get_current_branch over the value run_command returned.
get_current_branch_of(branch) == Str(IF truthy(branch) THEN branch.out ELSE Text["main"])

\* has_staged_changes and has_unstaged_changes: status.strip() is an
\* AttributeError on None.
has_changes_of(status) ==
  IF status.none THEN Raised ELSE Truth(strip(status.out) # <<>>)

\* has_any_changes: `or` evaluates its right side only when the left is false.
has_any_changes_of(staged, unstaged) ==
  LET lhs == has_changes_of(staged) IN
  IF lhs.raised \/ lhs.truth THEN lhs ELSE has_changes_of(unstaged)

has_remote_of(remote) == Truth(truthy(remote))

QueryNames ==
  { "get_current_branch", "has_staged_changes", "has_unstaged_changes",
    "has_any_changes", "has_remote" }

VARIABLES
  first,     \* exit status and stdout of the first process a query starts
  second,    \* the same for the second process (has_any_changes only)
  query,     \* the query function called ("" before the call)
  result     \* what the call gave

queryVars == <<first, second, query, result>>

\* One call of a query function.
CallQuery ==
  /\ query = ""
  /\ \E q \in QueryNames :
       LET v1 == run_command_value(first.status, first.stdout)
           v2 == run_command_value(second.status, second.stdout) IN
       /\ query' = q
       /\ result' = CASE q = "get_current_branch"   -> get_current_branch_of(v1)
                      [] q = "has_staged_changes"   -> has_changes_of(v1)
                      [] q = "has_unstaged_changes" -> has_changes_of(v1)
                      [] q = "has_any_changes"      -> has_any_changes_of(v1, v2)
                      [] q = "has_remote"           -> has_remote_of(v1)
  /\ UNCHANGED <<first, second>>

QueryInit ==
  /\ first \in [status : ExitStatuses, stdout : RawOutputs]
  /\ second \in [status : ExitStatuses, stdout : RawOutputs]
  /\ query = ""
  /\ result = Truth(FALSE)

QueryIdle ==
  /\ first = [status |-> 0, stdout |-> <<>>]
  /\ second = [status |-> 0, stdout |-> <<>>]
  /\ query = "idle"
  /\ result = Truth(FALSE)

\* ------------------------------------------ git_operations.py: smart_save
\* run_command for a query whose output the model computes from the
\* repository: the process is recorded, it reads no outcome.
Query(s, c) ==
  IF Blocked(s) THEN s
  ELSE [s EXCEPT !.cmds = Append(@, [c |-> c, arg |-> <<>>, ok |-> TRUE, err |-> {}])]

\* `git diff --cached --name-only`: the staged paths, sorted.
staged_paths(r) ==
  LET Staged(f) == f \in r.staged IN
  SelectSeq([i \in 1..NumFiles |-> <<FileNames[i]>>], Staged)

\* `git log -5 --pretty=format:%s`: the subjects typed with this tool.
log_subjects(r) ==
  [i \in 1..(IF r.commits < LOG_DEPTH THEN r.commits ELSE LOG_DEPTH) |-> <<"m">>]

\* generate_commit_message() of helpers.py in the repository of s: the
\* queries it makes, and its result.
message_queries(s) ==
  LET s1 == Query(s, "git diff --cached") IN
  IF staged_paths(s.repo) = <<>> THEN s1 ELSE Query(s1, "git log")

default_message(r) == generate_commit_message(staged_paths(r), log_subjects(r))

\* push_changes() called from smart_save.
call_push_changes(s) == push_changes(Say(s, "push_changes"))

\* Step 3 of smart_save as it would be without the auto_push toggle.
save_push_always_asks(s3) ==
  IF has_remote(s3.repo)
  THEN LET s4 == Ask(s3, "push to remote", "consent") IN
       IF lower(Ans(s4)) # T_n THEN call_push_changes(s4) ELSE Say(s4, "saved")
  ELSE Say(Say(s3, "no remote"), "saved")

\* Step 3 of smart_save: the push, as the configuration allows.
save_push(s3) ==
  IF has_remote(s3.repo)
  THEN IF s3.repo.config.auto_push
       THEN LET s4 == Ask(s3, "push to remote", "consent") IN
            IF lower(Ans(s4)) # T_n THEN call_push_changes(s4) ELSE Say(s4, "saved")
       ELSE Say(Say(s3, "saved"), "auto-push disabled")
  ELSE Say(Say(s3, "no remote"), "saved")

save_stage(s0) ==
  IF s0.repo.config.auto_stage
  THEN Query(Say(run_command(Say(s0, "staging"), "git add .", <<>>), "staged"),
             "git diff --cached")
  ELSE s0

save_default(s1) ==
  IF s1.repo.config.learn_from_history THEN default_message(s1.repo)
  ELSE Text["Update files"]

save_commit(s2, chosen) ==
  LET s3 == run_command(s2, "git commit", chosen) IN
  IF Ok(s3) THEN save_push(Say(s3, "committed")) ELSE s3

save_prompt(s1q, default) ==
  LET s2 == Ask(s1q, "save message", "text") IN
  [s |-> s2, chosen |-> IF strip(Ans(s2)) # <<>> THEN strip(Ans(s2)) ELSE default]

save_message(s1, commit_message) ==
  IF commit_message # <<>> THEN [s |-> s1, chosen |-> commit_message]
  ELSE save_prompt(IF s1.repo.config.learn_from_history THEN message_queries(s1) ELSE s1,
                   save_default(s1))

save_changes(picked) == save_commit(picked.s, picked.chosen)

smart_save(s0, commit_message) ==
  LET config == s0.repo.config IN
  IF ~ has_any_changes(s0.repo)
  THEN IF has_remote(s0.repo)
       THEN LET s1 == run_command(s0, "git rev-list", <<>>)
                ahead == Ok(s1) /\ s1.repo.remoteRef # "synced" IN
            IF ahead
            THEN IF config.auto_push
                 THEN LET s2 == Ask(Say(s1, "unpushed commits"), "push to remote", "consent") IN
                      IF lower(Ans(s2)) # T_n THEN call_push_changes(s2) ELSE s2
                 ELSE Say(Say(s1, "unpushed commits"), "auto-push disabled")
            ELSE Say(s1, "up to date")
       ELSE Say(s0, "no changes")
  ELSE save_changes(save_message(save_stage(s0), commit_message))

SaveHandlers == { "smart_save", "smart_save_inline" }

\* ---------------------------------------- git_operations.py: sync_changes
sync_changes(s0) ==
  IF ~ has_remote(s0.repo) THEN Say(s0, "no remote")
  ELSE
  LET s1 == Conflicted(Launch(s0, "git pull", <<>>, "merge")) IN
  IF ~ Ok(s1) THEN Say(s1, "pull failed")
  ELSE
  LET s2 == Say(s1, "pull complete")
      clean == ~ has_any_changes(s2.repo)
      s3 == IF clean THEN run_command(s2, "git rev-list", <<>>) ELSE s2
      ahead == Ok(s3) /\ s3.repo.remoteRef # "synced" IN
  IF clean /\ ~ ahead THEN Say(s3, "up to date")
  ELSE LET s4 == Launch(IF clean THEN Say(s3, "commits to push") ELSE s3,
                        "git push", <<>>, "push") IN
       IF Ok(s4) THEN Say(Say(s4, "sync complete"), "notify sync")
       ELSE Say(s4, "push failed")

\* ----------------------------------------------------------------- actions
Handlers ==
  { "push_changes", "quick_push", "commit_changes", "gitcli_commit_changes",
    "gitcli_push_changes", "gitcli_quick_push", "delete_branch", "reset_commit",
    "stash_drop", "smart_undo" }

\* Handler h run from repository r over the inputs sc.
Replay(h, r, sc) ==
  LET s0 == Begin(r, sc) IN
  CASE h = "push_changes"          -> push_changes(s0)
    [] h = "quick_push"            -> quick_push(s0)
    [] h = "commit_changes"        -> commit_changes(s0)
    [] h = "gitcli_commit_changes" -> gitcli_commit_changes(s0)
    [] h = "gitcli_push_changes"   -> gitcli_push_changes(s0)
    [] h = "gitcli_quick_push"     -> gitcli_quick_push(s0)
    [] h = "delete_branch"         -> delete_branch(s0)
    [] h = "reset_commit"          -> reset_commit(s0)
    [] h = "stash_drop"            -> stash_drop(s0)
    [] h = "smart_undo"            -> smart_undo(s0)
    [] h = "smart_sync"            -> smart_sync(s0)
    [] h = "switch_branch"         -> switch_branch(s0)
    [] h = "smart_work"            -> smart_work(s0)
    [] h = "sync_changes"          -> sync_changes(s0)
    [] h = "smart_save"            -> smart_save(s0, <<>>)
    [] h = "smart_save_inline"     -> smart_save(s0, <<"m">>)
    [] OTHER                       -> s0

opsVars == <<repo, base, handler, script, wait, prompts, cmds, notices>>

\* The invocation of h from b has read sc: it is where Replay leaves it.
Advance(h, b, sc) ==
  \E s \in { Replay(h, b, sc) } :
  /\ s.real
  /\ handler' = h
  /\ base' = b
  /\ script' = sc
  /\ repo' = s.repo
  /\ wait' = s.wait
  /\ prompts' = s.prompts
  /\ cmds' = s.cmds
  /\ notices' = s.notices

\* The user starts handler h at the shell prompt.
Invoke(h) ==
  /\ handler = "idle"
  /\ Advance(h, repo, <<>>)

\* The blocked invocation reads its next input: a typed line, or the outcome
\* of the process it is waiting for.
Step ==
  /\ wait # ""
  /\ \E x \in Inputs(wait) : Advance(handler, base, Append(script, x))

RepoStates ==
  [ remote    : BOOLEAN,
    staged    : SUBSET Files,
    unstaged  : SUBSET Files,
    unmerged  : SUBSET Files,
    commits   : 0..MaxCommits,
    mergeHead : BOOLEAN,
    remoteRef : {"synced", "behind", "diverged"},
    remoteUpdates : {0},
    stashes   : 0..MaxStashes,
    current   : {Branch_main},
    branches  : {{Branch_main}, {Branch_main, Branch_dev}},
    config    : {DefaultConfig} ]

\* Repositories a handler is started in: no merge in progress; every index,
\* working-tree, remote and history state with no stash and one branch, and
\* every stash and branch state on a pushed history.
OpsRepos ==
  { r \in RepoStates :
      /\ r.unmerged = {} /\ ~ r.mergeHead
      /\ ~ r.remote => r.remoteRef = "behind"
      /\ \/ r.stashes = 0 /\ r.branches = {Branch_main}
         \/ r.remote /\ r.remoteRef = "synced" /\ r.staged = {} /\ r.commits = 1 }

OpsInit ==
  /\ repo \in OpsRepos
  /\ base = repo
  /\ handler = "idle"
  /\ script = <<>>
  /\ wait = ""
  /\ prompts = <<>>
  /\ cmds = <<>>
  /\ notices = <<>>

\* Repositories resolve_conflicts is started in: a merge, or a stash pop,
\* rebase or cherry-pick (no MERGE_HEAD), stopped with any set of files
\* unmerged.
ConflictRepos ==
  { r \in RepoStates :
      /\ r.remote /\ r.remoteRef = "behind"
      /\ r.stashes = 0 /\ r.branches = {Branch_main}
      /\ r.staged \cap r.unmerged = {} /\ r.unstaged = {}
      /\ r.commits < MaxCommits }

ConflictsInit ==
  /\ pc = "start"
  /\ conflicted_files = <<>>
  /\ choice = <<>>
  /\ filepath = <<>>
  /\ round = <<>>

ConflictsIdle ==
  /\ pc = "idle"
  /\ conflicted_files = <<>>
  /\ choice = <<>>
  /\ filepath = <<>>
  /\ round = <<>>

OpsIdle ==
  /\ repo = CHOOSE r \in OpsRepos : r.remote /\ r.staged = {} /\ r.unstaged = {}
  /\ base = repo
  /\ handler = "idle"
  /\ script = <<>>
  /\ wait = ""
  /\ prompts = <<>>
  /\ cmds = <<>>
  /\ notices = <<>>

\* ---------------------------------------------------------- specifications
\* The variables of the sections that follow the command line.
restVars == <<normVars, messageVars, loopVars, queryVars>>

RestIdle == NormIdle /\ MessageIdle /\ LoopIdle /\ QueryIdle

invocationVars == <<base, handler, script, wait, prompts, cmds, notices>>

vars == <<opsVars, hookVars, conflictVars, cliVars, restVars>>

\* One invocation of a handler, from any repository.
Init == OpsInit /\ HooksIdle /\ ConflictsIdle /\ CliIdle /\ RestIdle

Next ==
  \/ (\E h \in Handlers : Invoke(h)) /\ UNCHANGED <<hookVars, conflictVars, cliVars, restVars>>
  \/ Step /\ UNCHANGED <<hookVars, conflictVars, cliVars, restVars>>

Spec == Init /\ [][Next]_vars

\* Any sequence of hook installs and uninstalls.
InitHooks == OpsIdle /\ HooksInit /\ ConflictsIdle /\ CliIdle /\ RestIdle

NextHooks ==
  \/ InstallHook /\ UNCHANGED <<opsVars, conflictVars, cliVars, restVars>>
  \/ UninstallHook /\ UNCHANGED <<opsVars, conflictVars, cliVars, restVars>>

SpecHooks == InitHooks /\ [][NextHooks]_vars

\* One run of resolve_conflicts, from any conflicted (or clean) repository.
InitConflicts ==
  /\ repo \in ConflictRepos
  /\ base = repo
  /\ handler = "idle" /\ script = <<>> /\ wait = ""
  /\ prompts = <<>> /\ cmds = <<>> /\ notices = <<>>
  /\ HooksIdle
  /\ ConflictsInit
  /\ CliIdle
  /\ RestIdle

NextConflicts ==
  \/ Start /\ UNCHANGED <<invocationVars, hookVars, cliVars, restVars>>
  \/ Menu /\ UNCHANGED <<invocationVars, hookVars, cliVars, restVars>>
  \/ FileNumber /\ UNCHANGED <<invocationVars, hookVars, cliVars, restVars>>
  \/ Editor /\ UNCHANGED <<invocationVars, hookVars, cliVars, restVars>>
  \/ Mark /\ UNCHANGED <<invocationVars, hookVars, cliVars, restVars>>
  \/ Confirm /\ UNCHANGED <<invocationVars, hookVars, cliVars, restVars>>
  \/ Checkout /\ UNCHANGED <<invocationVars, hookVars, cliVars, restVars>>
  \/ Add /\ UNCHANGED <<invocationVars, hookVars, cliVars, restVars>>
  \/ Message /\ UNCHANGED <<invocationVars, hookVars, cliVars, restVars>>
  \/ ConfirmAbort /\ UNCHANGED <<invocationVars, hookVars, cliVars, restVars>>
  \/ Abort /\ UNCHANGED <<invocationVars, hookVars, cliVars, restVars>>

SpecConflicts == InitConflicts /\ [][NextConflicts]_vars

\* One start of the program with a command token, or one line of the
\* interactive loop, in or outside a git-controlled directory.
InitCli == OpsIdle /\ HooksIdle /\ ConflictsIdle /\ CliInit /\ RestIdle

NextCli ==
  \/ CliMain /\ UNCHANGED <<opsVars, hookVars, conflictVars, restVars>>
  \/ GitcliMain /\ UNCHANGED <<opsVars, hookVars, conflictVars, restVars>>
  \/ CliLoop /\ UNCHANGED <<opsVars, hookVars, conflictVars, restVars>>

SpecCli == InitCli /\ [][NextCli]_vars

\* Repositories smart_sync, switch_branch and smart_work are started in: on
\* main, clean or with one changed file, alone or next to the branch dev.
FlowRepos ==
  { r \in [ remote    : BOOLEAN,
            staged    : {{}},
            unstaged  : {{}, {<<FileNames[1]>>}},
            unmerged  : {{}},
            commits   : {1},
            mergeHead : {FALSE},
            remoteRef : {"synced", "behind", "diverged"},
            remoteUpdates : {0},
            stashes   : {0},
            current   : {Branch_main},
            branches  : {{Branch_main}, {Branch_main, Branch_develop}},
            config    : {DefaultConfig} ] :
      ~ r.remote => r.remoteRef = "behind" }

FlowsInit ==
  /\ repo \in FlowRepos
  /\ base = repo
  /\ handler = "idle"
  /\ script = <<>>
  /\ wait = ""
  /\ prompts = <<>>
  /\ cmds = <<>>
  /\ notices = <<>>

\* One invocation of a branch or sync workflow.
InitFlows == FlowsInit /\ HooksIdle /\ ConflictsIdle /\ CliIdle /\ RestIdle

NextFlows ==
  \/ (\E h \in FlowHandlers : Invoke(h)) /\ UNCHANGED <<hookVars, conflictVars, cliVars, restVars>>
  \/ Step /\ UNCHANGED <<hookVars, conflictVars, cliVars, restVars>>

SpecFlows == InitFlows /\ [][NextFlows]_vars

\* Repositories smart_save is started in, under every configuration.
SaveRepos ==
  { r \in [ remote    : BOOLEAN,
            staged    : SUBSET {<<FileNames[1]>>},
            unstaged  : SUBSET {<<FileNames[NumFiles]>>},
            unmerged  : {{}},
            commits   : {1},
            mergeHead : {FALSE},
            remoteRef : {"synced", "behind"},
            remoteUpdates : {0},
            stashes   : {0},
            current   : {Branch_main},
            branches  : {{Branch_main}},
            config    : Configs ] :
      ~ r.remote => r.remoteRef = "behind" }

SaveInit ==
  /\ repo \in SaveRepos
  /\ base = repo
  /\ handler = "idle"
  /\ script = <<>>
  /\ wait = ""
  /\ prompts = <<>>
  /\ cmds = <<>>
  /\ notices = <<>>

\* One invocation of smart_save, with or without a message on the command
\* line.
InitSave == SaveInit /\ HooksIdle /\ ConflictsIdle /\ CliIdle /\ RestIdle

NextSave ==
  \/ (\E h \in SaveHandlers : Invoke(h)) /\ UNCHANGED <<hookVars, conflictVars, cliVars, restVars>>
  \/ Step /\ UNCHANGED <<hookVars, conflictVars, cliVars, restVars>>

SpecSave == InitSave /\ [][NextSave]_vars

IdleBut(section) ==
  /\ section # "ops" => OpsIdle
  /\ section # "hooks" => HooksIdle
  /\ section # "conflicts" => ConflictsIdle
  /\ section # "cli" => CliIdle
  /\ section # "norm" => NormIdle
  /\ section # "message" => MessageIdle
  /\ section # "loop" => LoopIdle
  /\ section # "query" => QueryIdle

\* normalize_command applied, and applied again to its result, for every
\* spelling of every multi-word command and for the raw tokens.
InitNorm == IdleBut("norm") /\ NormInit

NextNorm ==
  Normalize /\ UNCHANGED <<opsVars, hookVars, conflictVars, cliVars, messageVars, loopVars, queryVars>>

SpecNorm == InitNorm /\ [][NextNorm]_vars

\* generate_commit_message applied to every history of at most LOG_DEPTH
\* subjects and every list of at most MaxStaged staged paths.
InitMessage == IdleBut("message") /\ MessageInit

NextMessage ==
  GenerateCommitMessage
    /\ UNCHANGED <<opsVars, hookVars, conflictVars, cliVars, normVars, loopVars, queryVars>>

SpecMessage == InitMessage /\ [][NextMessage]_vars

\* The interactive mode of cli.py: lines read until quit.
InitLoop == IdleBut("loop") /\ LoopInit

NextLoop ==
  ReadLine
    /\ UNCHANGED <<opsVars, hookVars, conflictVars, cliVars, normVars, messageVars, queryVars>>

SpecLoop == InitLoop /\ [][NextLoop]_vars

\* One call of a function of the query layer, over every outcome of the
\* processes it starts.
InitQuery == IdleBut("query") /\ QueryInit

NextQuery ==
  CallQuery
    /\ UNCHANGED <<opsVars, hookVars, conflictVars, cliVars, normVars, messageVars, loopVars>>

SpecQuery == InitQuery /\ [][NextQuery]_vars

\* ------------------------------------------------------------------ claims
\* The invocation has returned.
Done == handler # "idle" /\ wait = ""

\* How many times command c was run in this invocation.
Count(c) == Cardinality({ i \in 1..Len(cmds) : cmds[i].c = c })

Ran(c) == Count(c) > 0

\* The lines typed at prompt p in this invocation.
AnswersTo(p) == { prompts[i].a : i \in { j \in 1..Len(prompts) : prompts[j].p = p } }

\* `git push` failed with both "rejected" and "non-fast-forward" in stderr.
PushRejected ==
  \E i \in 1..Len(cmds) :
    /\ cmds[i].c = "git push" /\ ~ cmds[i].ok
    /\ {"rejected", "non-fast-forward"} \subseteq cmds[i].err

\* C1 (as stated): in push_changes and quick_push, after a rejected
\* non-fast-forward push, `git push --force` runs exactly once when the typed
\* answer is the string "yes" and never for any other typed answer, which
\* leaves the remote branch where it was.
C1_LiteralYes ==
  (handler \in {"push_changes", "quick_push"} /\ Done /\ PushRejected) =>
    /\ AnswersTo("force push") # {}
    /\ \A a \in AnswersTo("force push") :
         IF a = T_yes
         THEN Count("git push --force") = 1
         ELSE Count("git push --force") = 0 /\ repo.remoteUpdates = base.remoteUpdates

\* C1 (amended): in push_changes and quick_push, after a rejected
\* non-fast-forward push, `git push --force` runs exactly once when the typed
\* answer lowercased is "yes" (so "YES" counts), and never for any other
\* answer ("no", "y", "Y", the empty answer), which leaves the remote branch
\* where it was.
C1_ForcePushGate ==
  (handler \in {"push_changes", "quick_push"} /\ Done /\ PushRejected) =>
    /\ AnswersTo("force push") # {}
    /\ \A a \in AnswersTo("force push") :
         IF lower(a) = T_yes
         THEN Count("git push --force") = 1
         ELSE Count("git push --force") = 0 /\ repo.remoteUpdates = base.remoteUpdates

C1_Witness ==
  /\ handler = "quick_push" /\ Done /\ PushRejected
  /\ AnswersTo("force push") = {T_yes}
  /\ Count("git push --force") = 1
  /\ repo.remoteUpdates = base.remoteUpdates + 1

\* The strongly confirmed destructive commands of a handler, with the prompt
\* that guards them.
StrongPrompt(h) ==
  CASE h = "reset_commit" -> "confirm reset"
    [] h = "stash_drop"   -> "confirm drop all"
    [] h = "smart_undo"   -> "confirm discard all"
    [] OTHER              -> "none"

StrongCmds(h) ==
  CASE h = "reset_commit" -> {"git reset --hard"}
    [] h = "stash_drop"   -> {"git stash clear"}
    [] h = "smart_undo"   -> {"git reset --hard", "git clean -fd"}
    [] OTHER              -> {}

RanStrong == \E c \in StrongCmds(handler) : Ran(c)

\* C2 (as stated): hard reset (reset_commit, both options), drop-all-stashes
\* (stash_drop option 3) and discard-all (smart_undo option 1) never run their
\* destructive command when the confirmation typed is "y"; they run it only
\* when the confirmation typed is the string "yes".
C2_LiteralYes ==
  /\ T_y \in AnswersTo(StrongPrompt(handler)) => ~ RanStrong
  /\ RanStrong => AnswersTo(StrongPrompt(handler)) = {T_yes}

\* C2 (amended): the same handlers never run their destructive command when
\* the confirmation typed is "y" (or "Y"); they run it only when the
\* confirmation typed, lowercased, is "yes".
C2_StrongConfirmation ==
  /\ \A a \in AnswersTo(StrongPrompt(handler)) : lower(a) = T_y => ~ RanStrong
  /\ RanStrong =>
       /\ AnswersTo(StrongPrompt(handler)) # {}
       /\ \A a \in AnswersTo(StrongPrompt(handler)) : lower(a) = T_yes

C2_Witness ==
  /\ handler = "smart_undo" /\ Done
  /\ AnswersTo("confirm discard all") = {T_yes}
  /\ Ran("git reset --hard") /\ Ran("git clean -fd")

\* Commands that discard history or working-tree content, each with the
\* confirmation prompts that may authorise it.
Destructive ==
  { "git reset --hard", "git clean -fd", "git checkout --", "git branch -D",
    "git push --force", "git stash drop", "git stash clear" }

ConfirmationsFor(c) ==
  CASE c = "git reset --hard" -> {"confirm reset", "confirm discard all"}
    [] c = "git clean -fd"    -> {"confirm discard all"}
    [] c = "git checkout --"  -> {"confirm discard files"}
    [] c = "git branch -D"    -> {"confirm delete"}
    [] c = "git push --force" -> {"force push"}
    [] c = "git stash drop"   -> {"confirm drop"}
    [] c = "git stash clear"  -> {"confirm drop all"}
    [] OTHER                  -> {}

Affirmative(a) == lower(a) \in {T_y, T_yes}

\* C3: on every handler path, a command that discards history or
\* working-tree content runs only after a confirmation prompt for that action
\* was answered affirmatively in the same invocation.
C3_DestructiveGated ==
  \A i \in 1..Len(cmds) :
    cmds[i].c \in Destructive =>
      \E p \in ConfirmationsFor(cmds[i].c) : \E a \in AnswersTo(p) : Affirmative(a)

\* C4: push_changes starts `git push` (or any other process) only when a
\* remote is configured and nothing is staged or unstaged; with no remote or
\* with an uncommitted change it has returned after one notice, with no
\* process started.
C4_PushPreconditions ==
  handler = "push_changes" =>
    /\ (cmds # <<>> \/ wait # "") =>
         has_remote(base) /\ ~ has_staged_changes(base) /\ ~ has_unstaged_changes(base)
    /\ (~ has_remote(base) \/ has_staged_changes(base) \/ has_unstaged_changes(base)) =>
         /\ cmds = <<>> /\ wait = "" /\ repo = base
         /\ notices \in {<<"no remote">>, <<"uncommitted changes">>}

C4_Witness ==
  /\ handler = "push_changes" /\ Done
  /\ has_remote(base) /\ has_staged_changes(base) /\ ~ has_unstaged_changes(base)
  /\ cmds = <<>> /\ notices = <<"uncommitted changes">>

\* C5: with nothing staged and unstaged changes present, commit_changes asks
\* whether to stage all; when the user declines, neither `git add` nor
\* `git commit` runs and the repository is exactly as before.
C5_DeclinedStageAll ==
  ( /\ handler \in {"commit_changes", "gitcli_commit_changes"} /\ Done
    /\ ~ has_staged_changes(base) /\ has_unstaged_changes(base) ) =>
    /\ AnswersTo("stage all") # {}
    /\ \A a \in AnswersTo("stage all") :
         lower(a) # T_y => ~ Ran("git add .") /\ ~ Ran("git commit") /\ repo = base

\* C6: when hook type h has a hook file with content C and install_hook(h, _)
\* is called, afterwards h.backup holds C and a record for h is persisted; an
\* uninstall_hook(h) that follows leaves the hook file with exactly C, no
\* h.backup and no record for h.
C6_HookRoundTrip ==
  \A h \in HookTypes :
    hookTrail[h].before # Absent =>
      /\ hookTrail[h].ops = <<"install">> =>
           backupFile[h] = hookTrail[h].before /\ hookRecords[h] # "none"
      /\ hookTrail[h].ops = <<"install", "uninstall">> =>
           /\ hookFile[h] = hookTrail[h].before
           /\ backupFile[h] = Absent
           /\ hookRecords[h] = "none"

C6_Witness ==
  \E h \in HookTypes :
    /\ hookTrail[h] = [ops |-> <<"install", "uninstall">>, before |-> "user script 2",
                       origin |-> "user script 2"]
    /\ hookFile[h] = "user script 2"
    /\ backupFile[h] = Absent

InRound(e) == \E i \in 1..Len(round) : round[i] = e

CommitRan == InRound("git commit -m") \/ InRound("git commit --no-edit")

\* C7: from any non-empty set of conflicted files, accept-ours or accept-theirs
\* with target "all", confirmed, leaves every one of those files staged and
\* none unmerged, and merge completion is run. (Stated for the runs where the
\* checkout of the chosen side succeeded, up to the commit that completion
\* makes.)
C7_AllTargetStaged ==
  (filepath = AllFiles /\ InRound("checkout ok") /\ pc \in {"message", "done"}
     /\ ~ InRound("commit ok")) =>
    /\ \A i \in 1..Len(conflicted_files) : conflicted_files[i] \in repo.staged
    /\ ~ has_conflicts(repo)
    /\ InRound("complete_merge")

\* C8 as worded: whenever an action removes the last file from the in-memory
\* conflict list, merge completion runs a commit, whether or not MERGE_HEAD
\* exists.
C8_AlwaysCommits ==
  (InRound("list empty") /\ pc = "done") => CommitRan

\* C8: whenever an action removes the last file from the in-memory conflict
\* list, merge completion runs; with MERGE_HEAD present it asks for a message
\* and runs exactly one git commit (-m, or --no-edit for an empty message);
\* with MERGE_HEAD absent it runs no commit and reports the changes as staged.
C8_MergeCompletion ==
  InRound("list empty") =>
    /\ InRound("complete_merge")
    /\ pc \in {"message", "done"}
    /\ pc = "message" => repo.mergeHead /\ InRound("MERGE_HEAD") /\ ~ CommitRan
    /\ pc = "done" =>
         \/ /\ InRound("MERGE_HEAD")
            /\ InRound("git commit -m") # InRound("git commit --no-edit")
            /\ InRound("commit ok") # InRound("commit failed")
            /\ InRound("commit ok") => ~ repo.mergeHead /\ repo.commits = base.commits + 1
         \/ /\ InRound("no MERGE_HEAD")
            /\ InRound("changes staged")
            /\ ~ CommitRan
            /\ ~ repo.mergeHead
            /\ repo.commits = base.commits

C8_Witness ==
  /\ pc = "done"
  /\ Cardinality(base.unmerged) = NumFiles
  /\ conflicted_files = <<>>
  /\ InRound("list empty")
  /\ InRound("changes staged")
  /\ ~ base.mergeHead

KnownCommands ==
  { execute_command_chain[i][1] : i \in 1..Len(execute_command_chain) }

\* C9: execute_command returns True exactly for the tokens of its if/elif
\* chain; for any other token it returns False, calls no handler, starts no
\* process and writes neither the repository nor the persisted configuration.
C9_Dispatcher ==
  handled # <<>> =>
    /\ handled[1] = (command \in KnownCommands)
    /\ handled[1] => Len(calls) = 1
    /\ ~ handled[1] => calls = <<>> /\ touched = Untouched

C9_Witness ==
  /\ entry = "cli.py loop"
  /\ command = Spell["sync"]
  /\ handled = <<FALSE>>
  /\ calls = <<>>

\* C10: started with a command token, main exits with 1 and dispatches nothing
\* when the directory is not git-controlled and the normalized token is
\* neither clone nor help; otherwise it dispatches exactly once, exiting with
\* 0 when the token is recognized and with 1 when it is not.
C10_ExitCodes ==
  entry \in {"cli.py main", "gitcli.py main"} =>
    LET old == entry = "gitcli.py main"
        token == IF old THEN replace_space(lower(argv1)) ELSE normalize_command(argv1)
        chain == IF old THEN gitcli_main_chain ELSE execute_command_chain
        recognized == Lookup(chain, token) # <<>>
    IN
    IF ~ isGitDir /\ token \notin {Spell["clone"], Spell["help"]}
    THEN exitCode = <<EXIT_FAIL>> /\ calls = <<>>
    ELSE /\ Len(calls) = IF recognized THEN 1 ELSE 0
         /\ exitCode = <<IF recognized THEN EXIT_OK ELSE EXIT_FAIL>>

\* C11: normalize_command is idempotent: applied to its own result it returns
\* that result; in particular a token of the dispatcher is returned unchanged
\* and no value of the alias table is one of its keys.
C11_Idempotent ==
  /\ Len(normalized) = 2 => normalized[2] = normalized[1]
  /\ (normalized # <<>> /\ cmd \in KnownCommands) => normalized[1] = cmd
  /\ \A i, j \in 1..Len(command_map) : command_map[i][2] # command_map[j][1]

C11_Witness ==
  /\ cmd = <<"L", "i", "s", "t", " ", "b", "r", "a", "n", "c", "h">>
  /\ normalized = <<Spell["list-branch"], Spell["list-branch"]>>

\* C12: every letter-case variant of the hyphenated form, of the single-space
\* form and of the concatenated form of a multi-word command normalizes to
\* the hyphenated lowercase canonical token.
C12_AliasSpellings ==
  (normalized # <<>> /\ spelled.form \in {"hyphen", "space", "joined"}) =>
    normalized[1] = spelled.of

C12_Witness ==
  /\ spelled = [of |-> Spell["stash-pop"], form |-> "joined"]
  /\ cmd = <<"S", "t", "a", "s", "h", "P", "o", "p">>
  /\ normalized # <<>>
  /\ normalized[1] = Spell["stash-pop"]

\* C13: normalize_command turns every run of whitespace between two words
\* into exactly one hyphen, so a spelling with two spaces or a tab between
\* the words normalizes to the same token as the single-space spelling.
C13_WhitespaceCollapsed ==
  (normalized # <<>> /\ spelled.form \in {"spaces", "tab"}) =>
    normalized[1] = spelled.of

Conventional == get_commit_history_pattern(commits) = "conventional"

StartingWith(prefixes) ==
  Cardinality({ i \in 1..Len(commits) :
                  \E p \in prefixes : startswith(commits[i], p) })

SomePath(Test(_)) == \E i \in 1..Len(staged_files) : Test(staged_files[i])

UpdateMessage ==
  IF Len(staged_files) = 1 THEN Text["Update "] \o basename(staged_files[1])
  ELSE IF Len(staged_files) <= NAMES_SHOWN
  THEN Text["Update "] \o join(Text[", "],
         [i \in 1..Len(staged_files) |-> basename(staged_files[i])])
  ELSE Text["Update "] \o str(Len(staged_files)) \o Text[" files"]

\* C14 as worded: with at least 3 conventional subjects the message starts
\* with test: when a staged path contains "test"; otherwise with at least 3
\* subjects starting with "WIP" it is exactly WIP; otherwise it is Update X,
\* Update X, Y, Z or Update N files; for every staged file list.
C14_AsWorded ==
  message # <<>> =>
    LET HasTest(f) == contains(f, Text["test"]) IN
    IF StartingWith(CONVENTIONAL) >= PATTERN_MIN
    THEN SomePath(HasTest) => startswith(message[1], Text["test:"])
    ELSE IF StartingWith({Text["WIP"]}) >= PATTERN_MIN
    THEN message[1] = Text["WIP"]
    ELSE message[1] = UpdateMessage

\* C14: with no staged file the message is Update files. Otherwise: with at
\* least 3 subjects starting with a conventional prefix the message is
\* <type>: update X for one file and <type>: update N files for more, the type
\* being test when a path contains "test" in any letter case, else docs when
\* a path ends with .md or contains "readme" in any letter case, else feat for
\* one file and chore for more; otherwise with at least 3 subjects starting
\* with "wip" in any letter case it is exactly WIP; otherwise it is Update X
\* for one file, Update X, Y, Z (base names) for two or three, Update N files
\* for more.
C14_DefaultMessage ==
  message # <<>> =>
    LET m == message[1]
        n == Len(staged_files)
        HasTest(f) == contains(lower(f), Text["test"])
        IsDoc(f) == endswith(f, Text[".md"]) \/ contains(lower(f), Text["readme"])
        type == IF SomePath(HasTest) THEN Text["test"]
                ELSE IF SomePath(IsDoc) THEN Text["docs"]
                ELSE IF n = 1 THEN Text["feat"] ELSE Text["chore"]
        wips == Cardinality({ i \in 1..Len(commits) :
                                startswith(lower(commits[i]), Text["wip"]) })
    IN
    IF n = 0 THEN m = Text["Update files"]
    ELSE IF StartingWith(CONVENTIONAL) >= PATTERN_MIN
    THEN /\ startswith(m, type \o Text[": update "])
         /\ n = 1 => m = type \o Text[": update "] \o basename(staged_files[1])
         /\ n > 1 => m = type \o Text[": update "] \o str(n) \o Text[" files"]
    ELSE IF wips >= PATTERN_MIN THEN m = Text["WIP"]
    ELSE m = UpdateMessage

C14_Witness ==
  /\ message # <<>>
  /\ Len(commits) = LOG_DEPTH
  /\ StartingWith(CONVENTIONAL) = PATTERN_MIN
  /\ StartingWith({Text["WIP"]}) = 1
  /\ staged_files = <<Text["test_foo.py"]>>
  /\ startswith(message[1], Text["test:"])

Said(m) == \E i \in 1..Len(notices) : notices[i] = m

\* C16: in _undo_last_commit with a remote and HEAD contained in a
\* remote-tracking branch, git reset --soft HEAD~1 runs only after option 2 was
\* selected and the confirmation answered "y" (in either letter case);
\* selecting revert runs git revert and never the reset; any other selection
\* runs neither.
C16_PushedUndo ==
  (handler = "smart_undo" /\ has_remote(base) /\ head_is_pushed(base)) =>
    LET selected == { strip(a) : a \in AnswersTo("pushed option") } IN
    /\ Ran("git reset --soft") =>
         /\ selected = {T_2}
         /\ \E a \in AnswersTo("confirm undo") : lower(a) = T_y
    /\ selected = {T_1} => ~ Ran("git reset --soft") /\ (Done => Ran("git revert"))
    /\ (selected # {} /\ selected \cap {T_1, T_2} = {}) =>
         ~ Ran("git reset --soft") /\ ~ Ran("git revert") /\ Done /\ repo = base
    /\ Ran("git revert") => selected = {T_1}

C16_Witness ==
  /\ handler = "smart_undo" /\ Done
  /\ has_remote(base) /\ head_is_pushed(base)
  /\ \E a \in AnswersTo("pushed option") : a = <<" ", "2">>
  /\ Ran("git reset --soft")
  /\ repo.commits = base.commits - 1

CommandNames == [i \in 1..Len(cmds) |-> cmds[i].c]

\* C17: quick_push with no staged and no unstaged changes runs none of git add,
\* git commit and git push; otherwise what it runs is, in this order, the
\* stage-all, the message prompt, the commit and the push, and git push is
\* never started before git commit was run in the same invocation.
C17_QuickPushOrder ==
  handler = "quick_push" =>
    LET order == <<"git add .", "git commit", "git push", "git push --force">> IN
    /\ ~ has_any_changes(base) => cmds = <<>> /\ prompts = <<>>
    /\ Len(cmds) <= Len(order)
    /\ CommandNames = SubSeq(order, 1, Len(cmds))
    /\ AnswersTo("commit message") # {} => Ran("git add .")
    /\ Ran("git commit") => AnswersTo("commit message") # {}

C17_Witness ==
  /\ handler = "quick_push" /\ Done
  /\ base.staged = {} /\ base.unstaged # {}
  /\ CommandNames = <<"git add .", "git commit", "git push">>
  /\ repo.remoteUpdates = base.remoteUpdates + 1

\* C18: in commit_changes and quick_push an empty commit message (after
\* trimming) ends the invocation: the error is reported, the message is not
\* asked for again, and neither git commit nor git push is started.
C18_EmptyMessageTerminal ==
  (handler \in {"commit_changes", "quick_push"}
     /\ \E a \in AnswersTo("commit message") : strip(a) = <<>>) =>
    /\ Done
    /\ Said("empty message")
    /\ Cardinality({ i \in 1..Len(prompts) : prompts[i].p = "commit message" }) = 1
    /\ ~ Ran("git commit")
    /\ ~ Ran("git push")

C18_Witness ==
  /\ handler = "commit_changes" /\ Done
  /\ AnswersTo("commit message") = {<<" ">>}
  /\ Said("empty message")
  /\ ~ Ran("git commit")

\* The positions in cmds at which command c was run.
At(c) == { i \in 1..Len(cmds) : cmds[i].c = c }

\* The (Y/n) question p was answered, and not with "n" in either letter case.
Consented(p) == \E a \in AnswersTo(p) : lower(a) # T_n

\* Orderings and causes common to both readings of C15.
SyncOrdering ==
  /\ Ran("git stash push") => has_any_changes(base) /\ has_remote(base)
  /\ \A i \in At("git pull") :
       /\ has_any_changes(base) <=> \E j \in At("git stash push") : j < i /\ cmds[j].ok
       /\ ~ has_any_changes(base) => ~ Ran("git stash push")
  /\ \A i \in At("git stash pop") :
       /\ \E j \in At("git stash push") : j < i /\ cmds[j].ok
       /\ \E j \in At("git pull") : j < i /\ cmds[j].ok
  /\ Ran("git push") =>
       /\ \E j \in At("git rev-list") : cmds[j].ok
       /\ Said("commits to push")
       /\ Consented("push now")
  /\ \A i \in At("git push") : \A j \in At("git rev-list") : j < i

\* C15 (as stated): the orderings, and whenever the output of the pull
\* contains CONFLICT the stash is not popped and a stash that was made is
\* reported as still saved.
C15_AsWorded ==
  (handler = "smart_sync" /\ Done) =>
    /\ SyncOrdering
    /\ \A i \in At("git pull") : "CONFLICT" \in cmds[i].err =>
         /\ ~ Ran("git stash pop")
         /\ Ran("git stash push") => Said("stash still saved")

\* C15: in smart_sync every git pull is preceded by a successful git stash
\* push exactly when the tree was dirty at the start; git stash pop runs only
\* after a stash made by this invocation and a pull that succeeded; when the
\* pull fails with CONFLICT in its output the stash is never popped and, if a
\* stash was made, the user is told it is still saved; git push runs only
\* after the ahead count was read as positive and the push question was
\* answered with something other than "n".
C15_SyncOrdering ==
  (handler = "smart_sync" /\ Done) =>
    /\ SyncOrdering
    /\ \A i \in At("git pull") : (~ cmds[i].ok /\ "CONFLICT" \in cmds[i].err) =>
         /\ ~ Ran("git stash pop")
         /\ Said("resolve_conflicts")
         /\ Ran("git stash push") => Said("stash still saved")

C15_Witness ==
  /\ handler = "smart_sync" /\ Done
  /\ has_any_changes(base)
  /\ CommandNames = <<"git stash push", "git pull">>
  /\ cmds[1].ok /\ ~ cmds[2].ok /\ "CONFLICT" \in cmds[2].err
  /\ Said("stash still saved")
  /\ repo.stashes = 1

\* C20: when the name typed in switch_branch is the name of no local branch,
\* the creation of the branch is offered and git checkout <name> is not run,
\* also when the name is a part of the name of another local branch.
C20_ExactBranchTest ==
  (handler = "switch_branch" /\ Done /\ AnswersTo("switch to") # {}) =>
    \A a \in AnswersTo("switch to") :
      (strip(a) # <<>> /\ strip(a) \notin base.branches) =>
        /\ AnswersTo("create branch") # {}
        /\ ~ Ran("git checkout")

\* C19: the interactive loop goes on prompting after every line whose command
\* token is not quit and is left exactly at the first line whose normalized
\* first word is quit; the quit line and an empty line call no handler and
\* print no unknown-command message; a line with an unrecognized token calls
\* no handler and prints the unknown-command message; a recognized one calls
\* its handler and does not print it.
C19_InteractiveLoop ==
  session # "idle" =>
    /\ \A i \in 1..Len(passes) :
         LET p == passes[i]
             blank == strip(p.line) = <<>>
             token == normalize_command(FirstWord(strip(p.line))) IN
         /\ (~ blank /\ token = Spell["quit"]) <=> (i = Len(passes) /\ session = "exited")
         /\ (blank \/ token = Spell["quit"]) => p.calls = <<>> /\ ~ p.unknown
         /\ (~ blank /\ token # Spell["quit"]) =>
              /\ p.command = token
              /\ token \notin KnownCommands => p.calls = <<>> /\ p.unknown
              /\ token \in KnownCommands => p.calls # <<>> /\ ~ p.unknown
    /\ passes = <<>> => session = "prompt"

C19_Witness ==
  /\ session = "exited"
  /\ Len(passes) = 3
  /\ passes[1].line = <<>> /\ passes[1].calls = <<>>
  /\ passes[2].line = Spell["bogus"] /\ passes[2].unknown
  /\ passes[3].line = <<" ", "Q", "u", "i", "t">> /\ passes[3].calls = <<>>

\* C21: smart_save follows the toggles of the configuration: with auto_push
\* false push_changes is not called, for a new commit and for commits made
\* earlier alike; with auto_stage false git add . is not run; with
\* learn_from_history false git log is not queried and the message used when
\* the user just presses Enter is "Update files"; with auto_push true
\* push_changes is called only with a remote and an answer to the push
\* question other than "n".
C21_ConfigToggles ==
  handler \in SaveHandlers =>
    /\ ~ base.config.auto_push => ~ Said("push_changes") /\ ~ Ran("git push")
                                   /\ AnswersTo("push to remote") = {}
    /\ ~ base.config.auto_stage => ~ Ran("git add .")
    /\ ~ base.config.learn_from_history =>
         /\ ~ Ran("git log")
         /\ \A i \in 1..Len(cmds) :
              (cmds[i].c = "git commit" /\ \E a \in AnswersTo("save message") : strip(a) = <<>>)
                => cmds[i].arg = Text["Update files"]
    /\ Said("push_changes") =>
         /\ has_remote(base)
         /\ \E a \in AnswersTo("push to remote") : a # T_n /\ lower(a) # T_n
    /\ \A a \in AnswersTo("push to remote") : lower(a) = T_n => ~ Said("push_changes")

C21_Witness ==
  /\ handler = "smart_save" /\ Done
  /\ base.config = [auto_push |-> FALSE, auto_stage |-> TRUE, learn_from_history |-> FALSE]
  /\ has_remote(base) /\ base.unstaged # {}
  /\ \E i \in 1..Len(cmds) :
       cmds[i].c = "git commit" /\ cmds[i].ok /\ cmds[i].arg = Text["Update files"]
  /\ Said("auto-push disabled")
  /\ repo.remoteUpdates = 0

\* C22: in push_changes, quick_push, sync_changes and smart_sync a failed git
\* push with "rejected" and "non-fast-forward" in stderr is followed by the
\* force-push question, one with "no upstream" in stderr by the set-upstream
\* question, and the generic failure message is printed only for a failure
\* with neither.
C22_PushRecovery ==
  (handler \in {"push_changes", "quick_push", "sync_changes", "smart_sync"} /\ Done) =>
    \A i \in 1..Len(cmds) : (cmds[i].c = "git push" /\ ~ cmds[i].ok) =>
      LET rejected == {"rejected", "non-fast-forward"} \subseteq cmds[i].err
          upstream == "no upstream" \in cmds[i].err IN
      /\ rejected => AnswersTo("force push") # {}
      /\ upstream => AnswersTo("set upstream") # {}
      /\ Said("push failed") => ~ rejected /\ ~ upstream

\* C23: for every outcome of the processes they start, the non-zero exit
\* status included, get_current_branch, has_staged_changes,
\* has_unstaged_changes, has_any_changes and has_remote return a value and
\* raise nothing; on a non-zero exit status the value is the default branch
\* name or false.
C23_NeverRaises ==
  query \in QueryNames =>
    /\ ~ result.raised
    /\ first.status # 0 =>
         IF query = "get_current_branch" THEN result.text = Text["main"]
         ELSE IF query = "has_any_changes" THEN second.status # 0 => ~ result.truth
         ELSE ~ result.truth

\* C24: when hook type h holds a user hook with content C, after one or more
\* install_hook(h, ...) calls in a row and one uninstall_hook(h) the hook file
\* of h has content C again.
C24_OriginalKept ==
  \A h \in HookTypes :
    (hookTrail[h].ops = <<"install", "uninstall">> /\ hookTrail[h].origin \in UserScripts) =>
      hookFile[h] = hookTrail[h].origin

\* C25: in resolve_conflicts a file leaves the in-memory conflict list only
\* after a git add of that file succeeded, in each of the resolving actions;
\* so when the list became empty through single-file actions every file is
\* staged and none is unmerged.
C25_RemovedAfterAdd ==
  /\ InRound("removed") => InRound("add ok")
  /\ InRound("list empty") => repo.unmerged = {}

\* The menu loop of resolve_conflicts was left.
LoopLeft == pc \in {"message", "done"} /\ round # <<"no conflicts">>

\* C26: the menu loop of resolve_conflicts is left only when the conflict
\* list became empty, when an accept-all action succeeded, when abort merge
\* was chosen and confirmed with "yes" (in any letter case), or when exit was
\* chosen; an abort that is not confirmed runs no git merge --abort and goes
\* back to the menu with the conflict list and the repository as they were.
C26_LoopExits ==
  /\ [](LoopLeft =>
          \/ conflicted_files = <<>> /\ InRound("list empty")
          \/ /\ choice \in {T_3, T_4} /\ filepath = AllFiles
             /\ InRound("checkout ok") /\ InRound("all resolved")
          \/ /\ choice = <<"6">>
             /\ InRound("typed yes") \/ InRound("typed Yes")
             /\ InRound("merge aborted") \/ InRound("abort failed")
          \/ choice = <<"7">> /\ round = <<>>)
  /\ []((InRound("merge aborted") \/ InRound("abort failed")) =>
          (InRound("typed yes") \/ InRound("typed Yes")))
  /\ [][(pc = "confirm abort" /\ pc' # "abort") =>
          /\ pc' = "menu"
          /\ UNCHANGED <<repo, conflicted_files>>]_vars

C26_Witness ==
  /\ pc = "menu"
  /\ choice = <<"6">>
  /\ round = <<"abort asked", "typed y">>
  /\ conflicted_files # <<>>
  /\ repo.mergeHead

\* C27: whenever smart_sync stashed the changes of the user, by the time it
\* returns git stash pop was attempted or the user was told that the changes
\* are still in the stash, on every way out.
C27_NoStrandedStash ==
  (handler = "smart_sync" /\ Done
     /\ \E i \in At("git stash push") : cmds[i].ok) =>
    \/ Ran("git stash pop")
    \/ Said("stash still saved")
    \/ Said("stash kept")

\* C28: in quick_push a git commit that exits with a non-zero status is
\* followed by no git push and by no commit-success message; in
\* commit_changes the success message and the commit notification follow
\* only a git commit that succeeded.
C28_FailedCommitStops ==
  (handler \in {"quick_push", "commit_changes"} /\ Done) =>
    \A i \in At("git commit") : ~ cmds[i].ok =>
      /\ ~ Ran("git push")
      /\ ~ Said("committed")
      /\ ~ Said("notify commit")

\* C29: every token of COMMANDS other than quit, typed at the interactive
\* prompt as completion offers it, is recognized by execute_command: it
\* returns True and a handler is called, so the unknown-command message is
\* not printed.
C29_CompletionDispatchable ==
  (entry = "cli.py loop" /\ argv1 \in COMMANDS \ {Spell["quit"]}) =>
    /\ handled = <<TRUE>>
    /\ calls # <<>>

\* C30: delete_branch runs the forced git branch -D only when option 2 was
\* selected at the delete-options prompt; after option 1, an empty answer or
\* any other answer it runs at most the safe git branch -d.
C30_ForceDeleteOptIn ==
  handler = "delete_branch" =>
    (Ran("git branch -D") => \A a \in AnswersTo("delete option") : strip(a) = T_2)

====
